---- MODULE Spec2Model ----
(***************************************************************************)
(* Knowledge retrieval engine of quickvetpro: structural extraction and    *)
(* ingestion (app/services/structural_knowledge_service.py), vector        *)
(* ingestion and search (app/services/knowledge_service.py), the Redis     *)
(* cache layer (app/infra/cache.py) and the oracle-guided navigation loop  *)
(* (StructuralKnowledgeService.navigate, KnowledgeBase.structural_navigate)*)
(*                                                                         *)
(* A string is a tuple of one-character strings, so that case folding,     *)
(* substring tests, SQL LIKE and the regular expressions of the source are *)
(* computed, not assumed.                                                  *)
(***************************************************************************)
EXTENDS Integers, Sequences, FiniteSets, TLC

\* ------------------------------------------------------------------------
\* Characters and strings
\* ------------------------------------------------------------------------

Uppers == <<"A","B","C","D","E","F","G","H","I","J","K","L","M","N","O","P","Q","R","S","T","U","V","W","X","Y","Z","Í","Ç","Ã","Ê","Á","Ó">>
Lowers == <<"a","b","c","d","e","f","g","h","i","j","k","l","m","n","o","p","q","r","s","t","u","v","w","x","y","z","í","ç","ã","ê","á","ó">>

InSeq(seq, c) == \E i \in 1..Len(seq) : seq[i] = c
PosIn(seq, c) == CHOOSE i \in 1..Len(seq) : seq[i] = c

Digits == {"0","1","2","3","4","5","6","7","8","9"}
DigitSeq == <<"0","1","2","3","4","5","6","7","8","9">>
\* \s of the regular expressions, and what str.strip() removes
Whitespace == {" ", "\t", "\n"}
\* [A-Z] under re.IGNORECASE: the ASCII letters only
AsciiLetters == {Uppers[i] : i \in 1..26} \cup {Lowers[i] : i \in 1..26}
\* [IVXLCDM] under re.IGNORECASE
RomanLetters == {"I","V","X","L","C","D","M","i","v","x","l","c","d","m"}
\* \w: letters (accented ones included), digits and the underscore
WordChars == {Uppers[i] : i \in 1..Len(Uppers)} \cup {Lowers[i] : i \in 1..Len(Lowers)} \cup Digits \cup {"_"}

LowerChar(c) == IF InSeq(Uppers, c) THEN Lowers[PosIn(Uppers, c)] ELSE c
UpperChar(c) == IF InSeq(Lowers, c) THEN Uppers[PosIn(Lowers, c)] ELSE c
\* str.lower(), SQL LOWER
Lower(s) == [i \in 1..Len(s) |-> LowerChar(s[i])]
\* str.upper(), SQL UPPER
Upper(s) == [i \in 1..Len(s) |-> UpperChar(s[i])]

SetMin(S) == CHOOSE x \in S : \A y \in S : x <= y
SetMax(S) == CHOOSE x \in S : \A y \in S : x >= y

\* s[:n]
Take(s, n) == IF Len(s) > n THEN SubSeq(s, 1, n) ELSE s

\* str.strip()
Strip(s) ==
    IF \A i \in 1..Len(s) : s[i] \in Whitespace THEN <<>>
    ELSE SubSeq(s,
                CHOOSE i \in 1..Len(s) :
                    s[i] \notin Whitespace /\ \A k \in 1..(i - 1) : s[k] \in Whitespace,
                CHOOSE j \in 1..Len(s) :
                    s[j] \notin Whitespace /\ \A k \in (j + 1)..Len(s) : s[k] \in Whitespace)

\* the items of s from position i on, between the separators sep (a
\* one-character string)
RECURSIVE SplitFrom(_, _, _)
SplitFrom(s, sep, i) ==
    LET at == {k \in i..Len(s) : s[k] = sep}
    IN IF at = {} THEN <<SubSeq(s, i, Len(s))>>
       ELSE <<SubSeq(s, i, SetMin(at) - 1)>> \o SplitFrom(s, sep, SetMin(at) + 1)

\* str.split(sep)
SplitOn(s, sep) == SplitFrom(s, sep, 1)

\* str.split('\n')
SplitLines(s) == SplitOn(s, "\n")

\* sep.join(parts)
RECURSIVE JoinFrom(_, _, _)
JoinFrom(parts, sep, i) ==
    IF i > Len(parts) THEN <<>>
    ELSE IF i = Len(parts) THEN parts[i]
    ELSE parts[i] \o sep \o JoinFrom(parts, sep, i + 1)

Join(parts, sep) == JoinFrom(parts, sep, 1)

\* str(n) for n >= 0
RECURSIVE IntToStr(_)
IntToStr(n) == IF n < 10 THEN <<DigitSeq[n + 1]>> ELSE IntToStr(n \div 10) \o <<DigitSeq[(n % 10) + 1]>>

\* the literal lit stands in s at position i (case as written)
LitAt(s, i, lit) ==
    /\ i >= 1
    /\ i + Len(lit) - 1 <= Len(s)
    /\ \A k \in 1..Len(lit) : s[i + k - 1] = lit[k]

\* the same under re.IGNORECASE
LitAtCI(s, i, lit) == LitAt(Lower(s), i, Lower(lit))

\* x in s (Python substring test)
IsSubstr(x, s) == \E i \in 1..(Len(s) + 1) : LitAt(s, i, x)

\* the first position >= i of s that holds no character of class C
SpanEnd(s, i, C) ==
    LET out == {k \in i..Len(s) : s[k] \notin C}
    IN IF out = {} THEN Len(s) + 1 ELSE SetMin(out)

\* SQL LIKE: % matches any run of characters, _ exactly one.  LikeAt says
\* whether s from position i on matches pat from position j on.
RECURSIVE LikeAt(_, _, _, _)
LikeAt(s, i, pat, j) ==
    IF j > Len(pat) THEN i > Len(s)
    ELSE IF pat[j] = "%" THEN \E k \in i..(Len(s) + 1) : LikeAt(s, k, pat, j + 1)
    ELSE /\ i <= Len(s)
         /\ (pat[j] = "_" \/ pat[j] = s[i])
         /\ LikeAt(s, i + 1, pat, j + 1)

Like(s, pat) == \E text \in {s}, pattern \in {pat} : LikeAt(text, 1, pattern, 1)

\* Optional[int] = None of DocumentNode.parent_id and of the chapter and
\* section pointers; order indexes are >= 0
NONE == -1

\* ------------------------------------------------------------------------
\* Structural Extractor (structural_knowledge_service.py)
\* ------------------------------------------------------------------------

\* The title patterns of _extract_by_patterns, in the order the dict is
\* walked.  Every pattern is applied with re.match (anchored at the start
\* of the line) and re.IGNORECASE.  form names the shape that follows lit:
\*   LitNumRoman  ^LIT\s+(\d+|[IVXLCDM]+)     LitNum      ^LIT\s+(\d+)
\*   LitAlnum     ^LIT\s+([A-Z]|\d+)          NumDotCaps  ^(\d+)\.\s+[A-Z][A-Z\s]+$
\*   Dotted2      ^(\d+\.\d+)\s+              Dotted3     ^(\d+\.\d+\.\d+)\s+
Patterns == <<
    [type |-> "chapter",    form |-> "LitNumRoman", lit |-> <<"C","A","P","Í","T","U","L","O">>],
    [type |-> "chapter",    form |-> "LitNumRoman", lit |-> <<"C","H","A","P","T","E","R">>],
    [type |-> "chapter",    form |-> "NumDotCaps",  lit |-> <<>>],
    [type |-> "section",    form |-> "Dotted2",     lit |-> <<>>],
    [type |-> "section",    form |-> "LitNum",      lit |-> <<"S","E","Ç","Ã","O">>],
    [type |-> "section",    form |-> "LitNum",      lit |-> <<"S","E","C","T","I","O","N">>],
    [type |-> "subsection", form |-> "Dotted3",     lit |-> <<>>],
    [type |-> "appendix",   form |-> "LitAlnum",    lit |-> <<"A","N","E","X","O">>],
    [type |-> "appendix",   form |-> "LitAlnum",    lit |-> <<"A","P","P","E","N","D","I","X">>],
    [type |-> "appendix",   form |-> "LitAlnum",    lit |-> <<"A","P","Ê","N","D","I","C","E">>],
    [type |-> "table",      form |-> "LitNum",      lit |-> <<"T","A","B","E","L","A">>],
    [type |-> "table",      form |-> "LitNum",      lit |-> <<"T","A","B","L","E">>],
    [type |-> "figure",     form |-> "LitNum",      lit |-> <<"F","I","G","U","R","A">>],
    [type |-> "figure",     form |-> "LitNum",      lit |-> <<"F","I","G","U","R","E">>] >>

\* ^LIT\s+ followed by one character of class C
LitThen(s, lit, C) ==
    LET a == Len(lit) + 1
        b == SpanEnd(s, a, Whitespace)
    IN LitAtCI(s, 1, lit) /\ b > a /\ b <= Len(s) /\ s[b] \in C

\* ^\d+(\.\d+){dots}: the position after the dotted number, 0 when the line
\* does not start with one
RECURSIVE DottedEnd(_, _, _)
DottedEnd(s, i, dots) ==
    LET e == SpanEnd(s, i, Digits)
    IN IF e = i THEN 0
       ELSE IF dots = 0 THEN e
       ELSE IF e <= Len(s) /\ s[e] = "." THEN DottedEnd(s, e + 1, dots - 1)
       ELSE 0

\* re.match(pattern, line, re.IGNORECASE)
Matches(pat, s) ==
    CASE pat.form = "LitNumRoman" -> LitThen(s, pat.lit, Digits \cup RomanLetters)
      [] pat.form = "LitNum"      -> LitThen(s, pat.lit, Digits)
      [] pat.form = "LitAlnum"    -> LitThen(s, pat.lit, AsciiLetters \cup Digits)
      [] pat.form = "NumDotCaps"  ->
            LET d == DottedEnd(s, 1, 0)
                w == SpanEnd(s, d + 1, Whitespace)
            IN /\ d > 0 /\ d <= Len(s) /\ s[d] = "."
               /\ w > d + 1 /\ w <= Len(s) /\ s[w] \in AsciiLetters
               /\ w + 1 <= Len(s)
               /\ \A k \in (w + 1)..Len(s) : s[k] \in AsciiLetters \cup Whitespace
      [] pat.form = "Dotted2"     ->
            LET d == DottedEnd(s, 1, 1) IN d > 0 /\ d <= Len(s) /\ s[d] \in Whitespace
      [] pat.form = "Dotted3"     ->
            LET d == DottedEnd(s, 1, 2) IN d > 0 /\ d <= Len(s) /\ s[d] \in Whitespace

\* DocumentNode(...) as the extractor builds it
DocumentNode(parent_id, node_type, title, content, page_num, level, order_index) ==
    [parent_id |-> parent_id, node_type |-> node_type, title |-> title,
     content |-> content, page_start |-> page_num, page_end |-> page_num,
     level |-> level, order_index |-> order_index, references |-> <<>>]

\* One line of a page in _extract_by_patterns.  st holds the loop's locals:
\* nodes, order, current_chapter_idx, current_section_idx, page_content.
ScanLine(st, raw, page_num) ==
    LET line == Strip(raw)
        hits == {k \in 1..Len(Patterns) : Matches(Patterns[k], line)}
    IN IF line = <<>> THEN st
       ELSE IF hits = {} THEN [st EXCEPT !.page_content = Append(@, line)]
       ELSE LET node_type == Patterns[SetMin(hits)].type
                parent_idx == CASE node_type = "section" -> st.current_chapter_idx
                                [] node_type = "subsection" -> st.current_section_idx
                                [] OTHER -> NONE
                level == CASE node_type = "chapter" -> 1
                           [] node_type = "section" -> 2
                           [] node_type = "subsection" -> 3
                           [] OTHER -> 1
            IN [st EXCEPT
                  !.nodes = Append(@, DocumentNode(parent_idx, node_type, line, <<>>,
                                                   page_num, level, st.order)),
                  !.order = @ + 1,
                  !.current_chapter_idx = IF node_type = "chapter" THEN st.order ELSE @,
                  !.current_section_idx = IF node_type = "section" THEN st.order ELSE @]

RECURSIVE ScanLines(_, _, _)
ScanLines(st, lines, page_num) ==
    IF lines = <<>> THEN st
    ELSE ScanLines(ScanLine(st, Head(lines), page_num), Tail(lines), page_num)

\* One page of _extract_by_patterns: its lines, then the page node when no
\* node starts on the page.
ScanPage(st, text, page_num) ==
    LET st1 == ScanLines([st EXCEPT !.page_content = <<>>], SplitLines(text), page_num)
    IN IF \E i \in 1..Len(st1.nodes) : st1.nodes[i].page_start = page_num THEN st1
       ELSE [st1 EXCEPT
               !.nodes = Append(@, DocumentNode(NONE, "page", <<"P","á","g","i","n","a"," ">> \o IntToStr(page_num),
                                                Join(st1.page_content, <<"\n">>),
                                                page_num, 0, st1.order)),
               !.order = @ + 1]

RECURSIVE ScanPages(_, _, _)
ScanPages(st, pages, page_num) ==
    IF page_num > Len(pages) THEN st
    ELSE ScanPages(ScanPage(st, pages[page_num], page_num), pages, page_num + 1)

\* The reference patterns of _extract_references, in order.  Each is
\*   (?:pre)\s+(noun)\s+(\w+)            when pre is given   (patterns 1, 2)
\*   (noun)\s+(\w+)\s+(?:post)           when post is given  (pattern 3)
\* and is searched with re.findall(..., re.IGNORECASE).
RefPatterns == <<
    [pre  |-> {<<"v","e","r">>, <<"v","e","j","a">>, <<"c","o","n","f","i","r","a">>, <<"c","o","n","f","o","r","m","e">>},
     noun |-> {<<"a","n","e","x","o">>, <<"t","a","b","e","l","a">>, <<"f","i","g","u","r","a">>, <<"s","e","ç","ã","o">>, <<"c","a","p","í","t","u","l","o">>},
     post |-> {}],
    [pre  |-> {<<"n","o">>, <<"n","a">>, <<"d","o">>, <<"d","a">>},
     noun |-> {<<"a","n","e","x","o">>, <<"t","a","b","e","l","a">>, <<"f","i","g","u","r","a">>},
     post |-> {}],
    [pre  |-> {},
     noun |-> {<<"a","n","e","x","o">>, <<"t","a","b","e","l","a">>, <<"f","i","g","u","r","a">>},
     post |-> {<<"a","b","a","i","x","o">>, <<"a","c","i","m","a">>, <<"a","n","t","e","r","i","o","r">>, <<"s","e","g","u","i","n","t","e">>}] >>

\* positions where the noun may start when the match starts at i
NounStarts(s, i, pat) ==
    IF pat.pre = {} THEN {i}
    ELSE {SpanEnd(s, i + Len(v), Whitespace) :
             v \in {u \in pat.pre : LitAtCI(s, i, u)
                                    /\ SpanEnd(s, i + Len(u), Whitespace) > i + Len(u)}}

\* the matches of pat that start at position i of s: the two groups and the
\* position after the match
RefMatchesAt(s, i, pat) ==
    UNION {
      UNION {
        LET b == SpanEnd(s, a + Len(n), Whitespace)
            e == SpanEnd(s, b, WordChars)
            t == SpanEnd(s, e, Whitespace)
        IN IF ~(LitAtCI(s, a, n) /\ b > a + Len(n) /\ e > b) THEN {}
           ELSE IF pat.post = {}
                THEN {[g1 |-> SubSeq(s, a, a + Len(n) - 1), g2 |-> SubSeq(s, b, e - 1), end |-> e]}
                ELSE {[g1 |-> SubSeq(s, a, a + Len(n) - 1), g2 |-> SubSeq(s, b, e - 1),
                       end |-> t + Len(w)] : w \in {x \in pat.post : t > e /\ LitAtCI(s, t, x)}}
        : n \in pat.noun }
      : a \in NounStarts(s, i, pat) }

\* re.findall(pattern, text, re.IGNORECASE): the non-overlapping matches,
\* left to right
RECURSIVE FindAll(_, _, _)
FindAll(s, i, pat) ==
    IF i > Len(s) THEN <<>>
    ELSE LET ms == RefMatchesAt(s, i, pat)
         IN IF ms = {} THEN FindAll(s, i + 1, pat)
            ELSE LET m == CHOOSE x \in ms : TRUE
                 IN <<m>> \o FindAll(s, m.end, pat)

RECURSIVE AddRefs(_, _)
AddRefs(references, matches) ==
    IF matches = <<>> THEN references
    ELSE LET ref == Upper(Head(matches).g1 \o <<" ">> \o Head(matches).g2)
         IN AddRefs(IF InSeq(references, ref) THEN references ELSE Append(references, ref),
                    Tail(matches))

\* _extract_references(text)
ExtractReferences(text) ==
    AddRefs(AddRefs(AddRefs(<<>>, FindAll(text, 1, RefPatterns[1])),
                    FindAll(text, 1, RefPatterns[2])),
            FindAll(text, 1, RefPatterns[3]))

\* reader.pages[k] for the 0-based Python index k >= -1 (k = -1 is the last page)
PageAt(pages, k) == IF k = -1 THEN pages[Len(pages)] ELSE pages[k + 1]

RECURSIVE PageTexts(_, _, _)
PageTexts(pages, k, stop) ==
    IF k >= stop THEN <<>>
    ELSE (IF PageAt(pages, k) # <<>> THEN <<PageAt(pages, k)>> ELSE <<>>)
         \o PageTexts(pages, k + 1, stop)

\* _fill_node_contents(nodes, reader): page_end, content and references of
\* every node, from its place in the order sorted by (page_start, order_index)
FillNodeContents(nodes, pages) ==
    LET Before(i, j) == \/ nodes[i].page_start < nodes[j].page_start
                        \/ /\ nodes[i].page_start = nodes[j].page_start
                           /\ nodes[i].order_index < nodes[j].order_index
        After(i) == {j \in 1..Len(nodes) : Before(i, j)}
        NextNode(i) == CHOOSE j \in After(i) : \A k \in After(i) : k = j \/ Before(j, k)
        PageEnd(i) == IF After(i) # {}
                      THEN (IF nodes[i].page_start >= nodes[NextNode(i)].page_start - 1
                            THEN nodes[i].page_start
                            ELSE nodes[NextNode(i)].page_start - 1)
                      ELSE Len(pages)
        Stop(i) == IF PageEnd(i) < Len(pages) THEN PageEnd(i) ELSE Len(pages)
        Content(i) == Join(PageTexts(pages, nodes[i].page_start - 1, Stop(i)), <<"\n">>)
    IN [i \in 1..Len(nodes) |->
          [nodes[i] EXCEPT !.page_end = PageEnd(i),
                           !.content = Content(i),
                           !.references = ExtractReferences(Content(i))]]

\* _extract_by_patterns(reader); pages is the text of each page
\* (page.extract_text() or "")
ExtractByPatterns(pages) ==
    FillNodeContents(
        ScanPages([nodes |-> <<>>, order |-> 0, current_chapter_idx |-> NONE,
                   current_section_idx |-> NONE, page_content |-> <<>>], pages, 1).nodes,
        pages)

\* _detect_node_type(title, level)
DetectNodeType(title, level) ==
    LET title_upper == Upper(title)
        HasAny(words) == \E x \in words : IsSubstr(x, title_upper)
    IN IF HasAny({<<"C","A","P","Í","T","U","L","O">>, <<"C","H","A","P","T","E","R">>, <<"P","A","R","T","E">>, <<"P","A","R","T">>}) THEN "chapter"
       ELSE IF HasAny({<<"A","N","E","X","O">>, <<"A","P","P","E","N","D","I","X">>, <<"A","P","Ê","N","D","I","C","E">>}) THEN "appendix"
       ELSE IF HasAny({<<"T","A","B","E","L","A">>, <<"T","A","B","L","E">>, <<"Q","U","A","D","R","O">>}) THEN "table"
       ELSE IF HasAny({<<"F","I","G","U","R","A">>, <<"F","I","G","U","R","E">>, <<"I","M","A","G","E","M">>}) THEN "figure"
       ELSE IF level = 0 THEN "document"
       ELSE IF level = 1 THEN "chapter"
       ELSE IF level = 2 THEN "section"
       ELSE "subsection"

\* process_outline(items, parent_idx, level) of _extract_from_outline.  An
\* outline is a sequence whose elements are bookmarks [title, page] or
\* nested lists [items]; order always equals the number of nodes built.
RECURSIVE ProcessOutline(_, _, _, _)
ProcessOutline(nodes, items, parent_idx, level) ==
    IF items = <<>> THEN nodes
    ELSE LET item == Head(items)
             nodes1 ==
               IF "items" \in DOMAIN item
               THEN (IF nodes # <<>>
                     THEN ProcessOutline(nodes, item.items, nodes[Len(nodes)].order_index, level + 1)
                     ELSE nodes)
               ELSE Append(nodes, DocumentNode(parent_idx, DetectNodeType(item.title, level),
                                               item.title, <<>>, item.page, level, Len(nodes)))
         IN ProcessOutline(nodes1, Tail(items), parent_idx, level)

\* _extract_from_outline(reader)
ExtractFromOutline(outline, pages) ==
    LET nodes == ProcessOutline(<<>>, outline, NONE, 0)
    IN IF nodes = <<>> THEN <<>> ELSE FillNodeContents(nodes, pages)

\* _extract_structure(reader)
ExtractStructure(doc) ==
    LET nodes == IF doc.outline # <<>> THEN ExtractFromOutline(doc.outline, doc.pages) ELSE <<>>
    IN IF nodes = <<>> THEN ExtractByPatterns(doc.pages) ELSE nodes

\* ------------------------------------------------------------------------
\* Files of the knowledge folder
\* ------------------------------------------------------------------------

PageAnnexA == <<"A","N","E","X","O"," ","G","\n","d","o","s","e"," ","5"," ","m","g">>

\* a page for which page.extract_text() raises (a damaged content stream);
\* a page for which it returns None or "" has the text <<>>
Unextractable == <<"extract_text raises">>

\* What PdfReader(pdf_path) gives for each file content: whether the file
\* parses at all, reader.outline and the text of reader.pages.
\*   guide    no outline; a chapter that cites "Anexo G" and an annex whose
\*            heading "ANEXO G" is repeated on two pages
\*   manual   an outline Guia > Doses > Anexo G
\*   reprint  the manual saved again: other bytes, the same outline and text
\*   handbook no outline; a section "1.1 Uso do Anexo G" that cites "Anexo G"
\*            and the annex headed "ANEXO G"
\*   corrupt  not a readable PDF
Contents ==
    [guide   |-> [readable |-> TRUE, outline |-> <<>>,
                  pages |-> << <<"C","A","P","Í","T","U","L","O"," ","1","\n",
                                 "v","e","r"," ","A","n","e","x","o"," ","G">>,
                               PageAnnexA,
                               <<"A","N","E","X","O"," ","G","\n",
                                 "d","o","s","e"," ","9"," ","m","g">> >>],
     manual  |-> [readable |-> TRUE,
                  outline |-> << [title |-> <<"G","u","i","a">>, page |-> 1],
                                 [items |-> << [title |-> <<"D","o","s","e","s">>, page |-> 1],
                                               [items |-> << [title |-> <<"A","n","e","x","o"," ","G">>, page |-> 2] >>] >>] >>,
                  pages |-> << <<"t","e","x","t","o"," ","l","i","v","r","e">>, PageAnnexA >>],
     reprint |-> [readable |-> TRUE,
                  outline |-> << [title |-> <<"G","u","i","a">>, page |-> 1],
                                 [items |-> << [title |-> <<"D","o","s","e","s">>, page |-> 1],
                                               [items |-> << [title |-> <<"A","n","e","x","o"," ","G">>, page |-> 2] >>] >>] >>,
                  pages |-> << <<"t","e","x","t","o"," ","l","i","v","r","e">>, PageAnnexA >>],
     handbook |-> [readable |-> TRUE, outline |-> <<>>,
                   pages |-> << <<"1",".","1"," ","U","s","o"," ","d","o"," ","A","n","e","x","o"," ","G","\n","v","e","r"," ","A","n","e","x","o"," ","G">>,
                                PageAnnexA >>],
     scanned |-> [readable |-> TRUE, outline |-> <<>>,
                  pages |-> << <<"C","A","P","Í","T","U","L","O"," ","1","\n","t","e","x","t","o">>,
                               <<>>,
                               <<"A","N","E","X","O"," ","B","\n","d","o","s","e"," ","9"," ","m","g">> >>],
     damaged |-> [readable |-> TRUE, outline |-> <<>>,
                  pages |-> << <<"C","A","P","Í","T","U","L","O"," ","1","\n","t","e","x","t","o">>,
                               Unextractable,
                               <<"A","N","E","X","O"," ","B","\n","d","o","s","e"," ","9"," ","m","g">> >>],
     corrupt |-> [readable |-> FALSE, outline |-> <<>>, pages |-> <<>>]]

\* extract_text() raises for a page of the reader
PageRaises(reader) == \E k \in 1..Len(reader.pages) : reader.pages[k] = Unextractable

\* A file of the folder: its name and its bytes (named by the content they
\* encode).
File(name, bytes) == [file_name |-> name, bytes |-> bytes]

\* hashlib.md5(f.read()).hexdigest(): equal bytes, equal hash; md5 is taken
\* to be injective on the files of the folder
FileHash(file) == file.bytes

\* The listings folder.glob("*.pdf") can give: a file and a byte-identical
\* copy of it, a corrupt file before a good one, two good files, two files
\* with a page that gives no text.
Folders == {
    << File("a.pdf", "guide"), File("b.pdf", "guide") >>,
    << File("c.pdf", "corrupt"), File("m.pdf", "manual") >>,
    << File("m.pdf", "manual"), File("a.pdf", "guide") >>,
    << File("s.pdf", "scanned"), File("d.pdf", "damaged") >> }

\* ------------------------------------------------------------------------
\* Durable store rows (app/infra/db.py) and what ingestion writes
\* ------------------------------------------------------------------------

\* node_id_map.get(node.parent_id) if node.parent_id else None
ParentDbId(node, node_id_map) ==
    IF node.parent_id # NONE /\ node.parent_id # 0 /\ node.parent_id \in DOMAIN node_id_map
    THEN node_id_map[node.parent_id]
    ELSE NONE

\* the row INSERT INTO structural_nodes ... RETURNING node_id stores
NodeRow(node_id, document_id, parent_db_id, node) ==
    [node_id |-> node_id, document_id |-> document_id, parent_id |-> parent_db_id,
     node_type |-> node.node_type, title |-> node.title, content |-> node.content,
     page_start |-> node.page_start, page_end |-> node.page_end, level |-> node.level,
     order_index |-> node.order_index, references |-> node.references]

\* node_id_map[node.order_index] = node_id
MapPut(m, k, v) == [x \in DOMAIN m \cup {k} |-> IF x = k THEN v ELSE m[x]]

\* the rows of one document ORDER BY order_index (order_index is unique
\* within a document): the row at place i has i rows at or before it
SortByOrder(rows) ==
    [i \in 1..Cardinality(rows) |->
        CHOOSE r \in rows : Cardinality({x \in rows : x.order_index <= r.order_index}) = i]

Indent(level) == [i \in 1..(2 * level) |-> " "]

\* _generate_toc(document_id): the row written to structural_toc
TocRow(document_id, node_rows) ==
    LET Line(r) == Indent(r.level) \o r.title \o <<" ","(","p",".">> \o IntToStr(r.page_start) \o <<")">>
        Of(document) == {node_rows[i] : i \in {j \in 1..Len(node_rows) :
                                                 node_rows[j].document_id = document}}
    IN CHOOSE row \in
         { [document_id |-> document_id,
            toc_text |-> Join([i \in 1..Len(rows) |-> Line(rows[i])], <<"\n">>),
            items |-> [i \in 1..Len(rows) |->
                         [node_id |-> rows[i].node_id, type |-> rows[i].node_type,
                          title |-> rows[i].title, page |-> rows[i].page_start,
                          level |-> rows[i].level]]] :
             rows \in { SortByOrder(of) : of \in {Of(document_id)} } } : TRUE

\* INSERT INTO structural_toc ... ON CONFLICT (document_id) DO UPDATE
UpsertToc(toc_rows, row) ==
    IF \E i \in 1..Len(toc_rows) : toc_rows[i].document_id = row.document_id
    THEN [i \in 1..Len(toc_rows) |->
            IF toc_rows[i].document_id = row.document_id THEN row ELSE toc_rows[i]]
    ELSE Append(toc_rows, row)

\* ------------------------------------------------------------------------
\* Vector indexer helpers (knowledge_service.py)
\* ------------------------------------------------------------------------

CHUNK_SIZE == 500
CHUNK_OVERLAP == 50
BATCH_SIZE == 10

\* _extract_text_from_pdf(pdf_path): "" when the file cannot be read
ExtractTextFromPdf(file) ==
    LET reader == Contents[file.bytes]
    IN IF ~reader.readable \/ PageRaises(reader) THEN <<>>
       ELSE Join(PageTexts(reader.pages, 0, Len(reader.pages)), <<"\n","\n">>)

\* _create_chunks(text).  The tokenizer is tiktoken's; a token is taken to
\* be one character, decode(encode(x)) = x.
RECURSIVE ChunksFrom(_, _)
ChunksFrom(tokens, start) ==
    IF start >= Len(tokens) THEN <<>>
    ELSE LET end == start + CHUNK_SIZE
             chunk_text == Strip(SubSeq(tokens, start + 1,
                                        IF end < Len(tokens) THEN end ELSE Len(tokens)))
         IN (IF chunk_text # <<>> THEN <<chunk_text>> ELSE <<>>)
            \o ChunksFrom(tokens, end - CHUNK_OVERLAP)

\* a faulty variant of _create_chunks: the loop stops after its first window
CreateChunksFirstWindow(text) ==
    IF text = <<>> \/ Strip(SubSeq(text, 1, IF CHUNK_SIZE < Len(text) THEN CHUNK_SIZE ELSE Len(text))) = <<>>
    THEN <<>>
    ELSE <<Strip(SubSeq(text, 1, IF CHUNK_SIZE < Len(text) THEN CHUNK_SIZE ELSE Len(text)))>>

CreateChunks(text) == ChunksFrom(text, 0)

\* chunks[i:i + BATCH_SIZE] for the 0-based i
Batch(chunk_texts, i) ==
    SubSeq(chunk_texts, i + 1,
           IF i + BATCH_SIZE < Len(chunk_texts) THEN i + BATCH_SIZE ELSE Len(chunk_texts))

CountIn(s, C) == Cardinality({i \in 1..Len(s) : s[i] \in C})

\* The Embedding Oracle, client.embeddings.create(model, input): an external
\* service, deterministic per text; two integer features stand for the
\* 1536 floats.
EmbeddingOracle(text) == <<1 + CountIn(text, {"a", "A"}), 1 + CountIn(text, Digits)>>

\* f"[{','.join(map(str, embedding))}]", the pgvector literal
FormatEmbedding(v) ==
    <<"[">> \o Join([i \in 1..Len(v) |-> IntToStr(v[i])], <<",">>) \o <<"]">>

\* ------------------------------------------------------------------------
\* Cache layer (app/infra/cache.py)
\* ------------------------------------------------------------------------

CacheTypes == {"vector_search", "structural_navigation", "embedding"}

\* KnowledgeCache._generate_key(prefix, query, **params): the key is
\* CACHE_PREFIX + prefix + ":" + sha256(normalized + ":" + json(params)); the
\* hash is taken to be injective, so the key is what is hashed.
GenerateKey(prefix, query, params) ==
    [prefix |-> prefix, normalized |-> Strip(Lower(query)), params |-> params]

\* EmbeddingCache._get_key(text)
EmbeddingKey(text) == Strip(Lower(text))

\* json.dumps(value) / json.loads(cached): the stored string is never empty,
\* whatever the value
JsonDumps(value) == [json |-> value]
JsonLoads(cached) == cached.json

\* CacheMetrics.record_hit / record_miss
RecordMetric(m, cache_type, what) == [m EXCEPT ![cache_type][what] = @ + 1]

\* EmbeddingCache.get for every text of a batch (the first loop of
\* _get_embeddings_batch): acc holds cached_indices, texts_to_compute and
\* the metrics; up tells whether Redis answers.
RECURSIVE EmbCacheScan(_, _, _, _, _)
EmbCacheScan(texts, i, up, emb_cache, acc) ==
    IF i > Len(texts) THEN acc
    ELSE LET key == EmbeddingKey(texts[i])
             hit == up /\ key \in DOMAIN emb_cache
         IN EmbCacheScan(texts, i + 1, up, emb_cache,
              [cached_indices |-> IF hit THEN MapPut(acc.cached_indices, i, emb_cache[key])
                                  ELSE acc.cached_indices,
               texts_to_compute |-> IF hit THEN acc.texts_to_compute
                                    ELSE Append(acc.texts_to_compute, <<i, texts[i]>>),
               metrics |-> IF up
                           THEN RecordMetric(acc.metrics, "embedding",
                                             IF hit THEN "hits" ELSE "misses")
                           ELSE acc.metrics])

\* EmbeddingCache.set for every computed text, in order
RECURSIVE EmbCacheStore(_, _, _)
EmbCacheStore(emb_cache, texts_to_compute, j) ==
    IF j > Len(texts_to_compute) THEN emb_cache
    ELSE EmbCacheStore(MapPut(emb_cache, EmbeddingKey(texts_to_compute[j][2]),
                              FormatEmbedding(EmbeddingOracle(texts_to_compute[j][2]))),
                       texts_to_compute, j + 1)

\* _get_embeddings_batch(texts).  oracle is how the Embedding Oracle answers:
\* "ok", "batch_fails" (the batch request fails, the single requests of the
\* fallback succeed) or "down" (both fail and the exception leaves the
\* method).  sent lists the texts of every request made.
GetEmbeddingsBatch(texts, up, emb_cache, metrics, oracle) ==
    LET scan == EmbCacheScan(texts, 1, up, emb_cache,
                             [cached_indices |-> <<>>, texts_to_compute |-> <<>>,
                              metrics |-> metrics])
        todo == scan.texts_to_compute
        compute_texts == [j \in 1..Len(todo) |-> todo[j][2]]
        Result(i) == IF i \in DOMAIN scan.cached_indices THEN scan.cached_indices[i]
                     ELSE FormatEmbedding(EmbeddingOracle(texts[i]))
        all == [i \in 1..Len(texts) |-> Result(i)]
    IN IF todo = <<>>
       THEN [ok |-> TRUE, embeddings |-> all, emb_cache |-> emb_cache,
             metrics |-> scan.metrics, sent |-> <<>>]
       ELSE IF oracle = "ok"
       THEN [ok |-> TRUE, embeddings |-> all,
             emb_cache |-> IF up THEN EmbCacheStore(emb_cache, todo, 1) ELSE emb_cache,
             metrics |-> scan.metrics, sent |-> compute_texts]
       ELSE IF oracle = "batch_fails"
       THEN [ok |-> TRUE, embeddings |-> all, emb_cache |-> emb_cache,
             metrics |-> scan.metrics, sent |-> compute_texts \o compute_texts]
       ELSE [ok |-> FALSE, embeddings |-> <<>>, emb_cache |-> emb_cache,
             metrics |-> scan.metrics, sent |-> compute_texts]

\* ------------------------------------------------------------------------
\* State
\* ------------------------------------------------------------------------

VARIABLES
    documents,   \* structural_documents, in insertion order
    nodes,       \* structural_nodes, in insertion order (node_id = position)
    tocs,        \* structural_toc
    chunks,      \* knowledge_chunks, in insertion order
    cache,       \* Redis keys quickvet:cache:*  : key -> [text, stamp]
    embCache,    \* Redis keys quickvet:embedding:* : key -> pgvector literal
    metrics,     \* Redis hash quickvet:metrics:cache
    cacheUp,     \* whether the Cache Store answers during this run
    ing,         \* the ingest_all_pdfs calls in progress
    qry,         \* the search() and navigate() calls in progress
    faults,      \* store and oracle failures injected so far
    quota        \* Redis key quota:{user_id}:{YYYY-MM-DD} of one user and day

vars == <<documents, nodes, tocs, chunks, cache, embCache, metrics, cacheUp, ing, qry, faults, quota>>
store == <<documents, nodes, tocs, chunks>>

\* the quota key before the first message of the day: no key (count 0, no
\* TTL).  granted counts the check_and_increment_quota calls that have
\* returned True.
NoQuota == [count |-> 0, ttl |-> FALSE, granted |-> 0]

\* how many transient failures (a store statement that raises, an Embedding
\* Oracle request that fails) one run may see
MaxFaults == 1

MayFail == IF faults < MaxFaults THEN {FALSE, TRUE} ELSE {FALSE}

Ingesters == {"i1", "i2"}

NoMetrics == [t \in CacheTypes |-> [hits |-> 0, misses |-> 0]]

\* the locals of one ingest_pdf call, before its first statement
IngLocals ==
    [file_hash |-> "", document_id |-> 0, extracted |-> <<>>, node_id_map |-> <<>>,
     saved |-> 0, i |-> 0, j |-> 0, chunk_texts |-> <<>>, embeddings |-> <<>>,
     keys |-> {}, stored_at_check |-> FALSE, writes |-> 0, cache_before |-> {},
     oracle_down |-> FALSE]

FirstPc(kind, files) ==
    IF files = <<>> THEN "done" ELSE IF kind = "structural" THEN "s_check" ELSE "v_check"

\* ingest_all_pdfs(folder) of the structural or the vector service, at its
\* first file.  _extract_structure(reader) depends on the bytes of the file
\* alone: structures holds what it gives for each file of the listing, and
\* ingest_pdf reads it at the line where the source calls the extractor.
IngStart(kind, files, structures) ==
    [kind |-> kind, files |-> files, idx |-> 1, pc |-> FirstPc(kind, files),
     structures |-> IF kind = "structural"
                    THEN [i \in 1..Len(files) |-> structures[files[i].bytes]]
                    ELSE <<>>,
     results |-> <<>>, error |-> "", loc |-> IngLocals]

IngIdle == [kind |-> "structural", files |-> <<>>, idx |-> 1, pc |-> "done",
            structures |-> <<>>, results |-> <<>>, error |-> "", loc |-> IngLocals]

CurFile(p) == ing[p].files[ing[p].idx]

\* the live entries of the knowledge cache, as (key, stamp) pairs
LiveEntries == {<<k, cache[k].stamp>> : k \in DOMAIN cache}

\* ingest_pdf returns result: results.append(result) and the next file.
\* me is the process with its locals as they are at the return.  A result
\* without the key "status" (the vector service's {"error": ...}) has
\* status "".  oracle_down tells whether _get_embeddings_batch raised for a
\* batch of the file.
Return(me, status, document_id, count) ==
    LET r == [file |-> me.files[me.idx].file_name, status |-> status,
              document_id |-> document_id, count |-> count,
              stored_at_check |-> me.loc.stored_at_check,
              writes |-> me.loc.writes,
              cache_before |-> me.loc.cache_before,
              oracle_down |-> me.loc.oracle_down]
        more == me.idx < Len(me.files)
    IN [me EXCEPT !.results = Append(@, r),
                  !.idx = @ + 1,
                  !.pc = IF more THEN FirstPc(me.kind, me.files) ELSE "done",
                  !.loc = IngLocals]

\* an exception leaves ingest_pdf, and ingest_all_pdfs with it
Raise(me, error) == [me EXCEPT !.pc = "raised", !.error = error]

\* ------------------------------------------------------------------------
\* Ingestion (ingest_all_pdfs / ingest_pdf of both services).  One action
\* is one database or Redis statement together with the code that runs up
\* to the next await.
\* ------------------------------------------------------------------------

\* _extract_structure(reader) for each file content of the folders
Structures ==
    [bytes \in DOMAIN Contents |->
        IF Contents[bytes].readable /\ ~PageRaises(Contents[bytes])
        THEN ExtractStructure(Contents[bytes]) ELSE <<>>]

StoredHashes == {documents[d].file_hash : d \in 1..Len(documents)}

\* whether the table the service of this kind writes holds rows of file_hash
\* (recorded with each result, next to what the service itself answered)
HashStored(kind, file_hash) ==
    IF kind = "structural"
    THEN \E d \in 1..Len(documents) : documents[d].file_hash = file_hash
    ELSE \E c \in 1..Len(chunks) : chunks[c].file_hash = file_hash

\* a faulty variant of the duplicate check: the count always comes back 0
ChunkCountNone(file_hash) == 0

\* SELECT COUNT(*) FROM knowledge_chunks WHERE file_hash = $1
ChunkCount(file_hash) == Cardinality({c \in 1..Len(chunks) : chunks[c].file_hash = file_hash})

\* structural ingest_pdf, lines 155-167: the hash and
\* SELECT document_id FROM structural_documents WHERE file_hash = $1
SCheck(p) ==
    /\ ing[p].pc = "s_check"
    /\ \E fail \in MayFail :
        LET file_hash == FileHash(CurFile(p))
            found == {d \in 1..Len(documents) : documents[d].file_hash = file_hash}
            me == [ing[p] EXCEPT !.loc.file_hash = file_hash,
                                 !.loc.stored_at_check = HashStored("structural", file_hash),
                                 !.loc.cache_before = LiveEntries]
        IN IF fail
           THEN /\ faults' = faults + 1
                /\ ing' = [ing EXCEPT ![p] = Raise(ing[p], "store")]
           ELSE /\ faults' = faults
                /\ ing' = [ing EXCEPT ![p] =
                     IF found # {}
                     THEN Return(me, "already_processed", SetMin(found), 0)
                     ELSE [me EXCEPT !.pc = "s_insert"]]
    /\ UNCHANGED <<store, cache, embCache, metrics, cacheUp, quota, qry>>

\* lines 170-181: PdfReader(pdf_path), INSERT INTO structural_documents
\* (file_hash is UNIQUE) and _extract_structure(reader); an exception of
\* page.extract_text() leaves _extract_structure and ingest_pdf after the
\* INSERT
SInsertDocument(p) ==
    /\ ing[p].pc = "s_insert"
    /\ \E fail \in MayFail :
        LET file == CurFile(p)
            reader == Contents[file.bytes]
            document_id == Len(documents) + 1
        IN IF ~reader.readable
           THEN /\ fail = FALSE
                /\ ing' = [ing EXCEPT ![p] = Raise(ing[p], "extraction")]
                /\ UNCHANGED <<documents, faults>>
           ELSE IF fail
           THEN /\ faults' = faults + 1
                /\ ing' = [ing EXCEPT ![p] = Raise(ing[p], "store")]
                /\ UNCHANGED documents
           ELSE IF ing[p].loc.file_hash \in StoredHashes
           THEN /\ ing' = [ing EXCEPT ![p] = Raise(ing[p], "unique_violation")]
                /\ UNCHANGED <<documents, faults>>
           ELSE IF PageRaises(reader)
           THEN /\ documents' = Append(documents,
                       [document_id |-> document_id, file_name |-> file.file_name,
                        file_hash |-> ing[p].loc.file_hash,
                        total_pages |-> Len(reader.pages)])
                /\ ing' = [ing EXCEPT ![p] =
                             Raise([ing[p] EXCEPT !.loc.document_id = document_id,
                                                  !.loc.writes = @ + 1], "extraction")]
                /\ faults' = faults
           ELSE /\ documents' = Append(documents,
                       [document_id |-> document_id, file_name |-> file.file_name,
                        file_hash |-> ing[p].loc.file_hash,
                        total_pages |-> Len(reader.pages)])
                /\ ing' = [ing EXCEPT ![p].loc.document_id = document_id,
                                      ![p].loc.extracted = ing[p].structures[ing[p].idx],
                                      ![p].loc.writes = @ + 1,
                                      ![p].loc.i = 1,
                                      ![p].pc = "s_nodes"]
                /\ faults' = faults
    /\ UNCHANGED <<nodes, tocs, chunks, cache, embCache, metrics, cacheUp, quota, qry>>

\* lines 187-201: one turn of the loop, INSERT INTO structural_nodes
SInsertNode(p) ==
    /\ ing[p].pc = "s_nodes"
    /\ ing[p].loc.i <= Len(ing[p].loc.extracted)
    /\ \E fail \in MayFail :
        LET node == ing[p].loc.extracted[ing[p].loc.i]
            parent_db_id == ParentDbId(node, ing[p].loc.node_id_map)
            node_id == Len(nodes) + 1
        IN IF fail
           THEN /\ faults' = faults + 1
                /\ ing' = [ing EXCEPT ![p] = Raise(ing[p], "store")]
                /\ UNCHANGED nodes
           ELSE /\ nodes' = Append(nodes, NodeRow(node_id, ing[p].loc.document_id,
                                                  parent_db_id, node))
                /\ ing' = [ing EXCEPT
                     ![p].loc.node_id_map = MapPut(@, node.order_index, node_id),
                     ![p].loc.saved = @ + 1,
                     ![p].loc.writes = @ + 1,
                     ![p].loc.i = @ + 1]
                /\ faults' = faults
    /\ UNCHANGED <<documents, tocs, chunks, cache, embCache, metrics, cacheUp, quota, qry>>

\* line 204: _generate_toc(document_id) after the last node
SGenerateToc(p) ==
    /\ ing[p].pc = "s_nodes"
    /\ ing[p].loc.i > Len(ing[p].loc.extracted)
    /\ \E fail \in MayFail :
        IF fail
        THEN /\ faults' = faults + 1
             /\ ing' = [ing EXCEPT ![p] = Raise(ing[p], "store")]
             /\ UNCHANGED tocs
        ELSE /\ tocs' = UpsertToc(tocs, TocRow(ing[p].loc.document_id, nodes))
             /\ ing' = [ing EXCEPT ![p].loc.writes = @ + 1, ![p].pc = "inv_scan"]
             /\ faults' = faults
    /\ UNCHANGED <<documents, nodes, chunks, cache, embCache, metrics, cacheUp, quota, qry>>

\* KnowledgeCache.invalidate(), the branch "invalidar tudo": the scan of
\* CACHE_PREFIX*.  With Redis down the exception is swallowed; with no key
\* found there is no delete.  status and count are what ingest_pdf returns
\* after the invalidation.
InvalidateScan(p) ==
    /\ ing[p].pc = "inv_scan"
    /\ LET keys == DOMAIN cache
           status == "success"
           count == ing[p].loc.saved
       IN ing' = [ing EXCEPT ![p] =
            IF cacheUp /\ keys # {}
            THEN [ing[p] EXCEPT !.loc.keys = keys, !.pc = "inv_delete"]
            ELSE Return(ing[p], status, ing[p].loc.document_id, count)]
    /\ UNCHANGED <<store, cache, embCache, metrics, cacheUp, quota, qry, faults>>

\* redis.delete(*keys) and the return of ingest_pdf
InvalidateDelete(p) ==
    /\ ing[p].pc = "inv_delete"
    /\ cache' = [k \in DOMAIN cache \ ing[p].loc.keys |-> cache[k]]
    /\ ing' = [ing EXCEPT ![p] =
         Return(ing[p], "success", ing[p].loc.document_id, ing[p].loc.saved)]
    /\ UNCHANGED <<store, embCache, metrics, cacheUp, quota, qry, faults>>

\* vector ingest_pdf, lines 64-92: the text, the chunks, the hash and
\* SELECT COUNT(*) FROM knowledge_chunks WHERE file_hash = $1
VCheck(p) ==
    /\ ing[p].pc = "v_check"
    /\ \E fail \in MayFail :
        LET text == ExtractTextFromPdf(CurFile(p))
            file_hash == FileHash(CurFile(p))
            existing == ChunkCount(file_hash)
            me == [ing[p] EXCEPT !.loc.file_hash = file_hash,
                                 !.loc.stored_at_check = HashStored("vector", file_hash),
                                 !.loc.cache_before = LiveEntries,
                                 !.loc.chunk_texts = CreateChunks(text)]
        IN IF text = <<>>
           THEN /\ fail = FALSE
                /\ faults' = faults
                /\ ing' = [ing EXCEPT ![p] = Return(ing[p], "", 0, 0)]
           ELSE IF fail
           THEN /\ faults' = faults + 1
                /\ ing' = [ing EXCEPT ![p] = Raise(ing[p], "store")]
           ELSE /\ faults' = faults
                /\ ing' = [ing EXCEPT ![p] =
                     IF existing > 0
                     THEN Return(me, "already_processed", 0, existing)
                     ELSE [me EXCEPT !.pc = "v_embed"]]
    /\ UNCHANGED <<store, cache, embCache, metrics, cacheUp, quota, qry>>

OracleAnswers == IF faults < MaxFaults THEN {"ok", "batch_fails", "down"} ELSE {"ok"}

\* lines 97-102: the next batch and _get_embeddings_batch(batch); an
\* exception skips the batch (except ... continue)
VEmbedBatch(p) ==
    /\ ing[p].pc = "v_embed"
    /\ ing[p].loc.i < Len(ing[p].loc.chunk_texts)
    /\ \E oracle \in OracleAnswers :
        LET batch == Batch(ing[p].loc.chunk_texts, ing[p].loc.i)
            got == GetEmbeddingsBatch(batch, cacheUp, embCache, metrics, oracle)
        IN /\ faults' = IF oracle = "ok" \/ got.sent = <<>> THEN faults ELSE faults + 1
           /\ embCache' = got.emb_cache
           /\ metrics' = got.metrics
           /\ ing' = [ing EXCEPT ![p] =
                IF got.ok
                THEN [ing[p] EXCEPT !.loc.embeddings = got.embeddings, !.loc.j = 0,
                                    !.pc = "v_insert"]
                ELSE [ing[p] EXCEPT !.loc.i = @ + BATCH_SIZE, !.loc.oracle_down = TRUE]]
    /\ UNCHANGED <<store, cache, cacheUp, quota, qry>>

\* lines 105-111: INSERT INTO knowledge_chunks for chunk j of the batch; an
\* exception skips the rest of the batch
VInsertChunk(p) ==
    /\ ing[p].pc = "v_insert"
    /\ \E fail \in MayFail :
        LET batch == Batch(ing[p].loc.chunk_texts, ing[p].loc.i)
            j == ing[p].loc.j
            last == j + 1 >= Len(batch)
        IN IF fail
           THEN /\ faults' = faults + 1
                /\ UNCHANGED chunks
                /\ ing' = [ing EXCEPT ![p].loc.i = @ + BATCH_SIZE, ![p].pc = "v_embed"]
           ELSE /\ faults' = faults
                /\ chunks' = Append(chunks,
                      [content |-> batch[j + 1], embedding |-> ing[p].loc.embeddings[j + 1],
                       file_name |-> CurFile(p).file_name,
                       file_hash |-> ing[p].loc.file_hash,
                       chunk_index |-> ing[p].loc.i + j])
                /\ ing' = [ing EXCEPT ![p].loc.saved = @ + 1,
                                      ![p].loc.writes = @ + 1,
                                      ![p].loc.j = IF last THEN 0 ELSE j + 1,
                                      ![p].loc.i = IF last THEN @ + BATCH_SIZE ELSE @,
                                      ![p].pc = IF last THEN "v_embed" ELSE "v_insert"]
    /\ UNCHANGED <<documents, nodes, tocs, cache, embCache, metrics, cacheUp, quota, qry>>

\* line 122: past the last batch, KnowledgeCache.invalidate_on_ingest()
VBatchesDone(p) ==
    /\ ing[p].pc = "v_embed"
    /\ ing[p].loc.i >= Len(ing[p].loc.chunk_texts)
    /\ ing' = [ing EXCEPT ![p].pc = "inv_scan"]
    /\ UNCHANGED <<store, cache, embCache, metrics, cacheUp, quota, qry, faults>>

IngestNext ==
    \E p \in Ingesters :
        \/ SCheck(p)
        \/ SInsertDocument(p)
        \/ SInsertNode(p)
        \/ SGenerateToc(p)
        \/ VCheck(p)
        \/ VEmbedBatch(p)
        \/ VInsertChunk(p)
        \/ VBatchesDone(p)
        \/ InvalidateScan(p)
        \/ InvalidateDelete(p)

Kinds == {"structural", "vector"}

\* ------------------------------------------------------------------------
\* Structural navigation and vector search: pure parts
\* ------------------------------------------------------------------------

\* NodeType: each member with its value as text
NodeTypeValues ==
    { <<"document", <<"d","o","c","u","m","e","n","t">>>>,
      <<"chapter", <<"c","h","a","p","t","e","r">>>>,
      <<"section", <<"s","e","c","t","i","o","n">>>>,
      <<"subsection", <<"s","u","b","s","e","c","t","i","o","n">>>>,
      <<"page", <<"p","a","g","e">>>>,
      <<"appendix", <<"a","p","p","e","n","d","i","x">>>>,
      <<"table", <<"t","a","b","l","e">>>>,
      <<"figure", <<"f","i","g","u","r","e">>>> }


\* line.replace(old, ''): every occurrence of old removed, left to right
RECURSIVE RemoveFrom(_, _, _)
RemoveFrom(s, old, i) ==
    IF i > Len(s) THEN <<>>
    ELSE IF LitAt(s, i, old) THEN RemoveFrom(s, old, i + Len(old))
    ELSE <<s[i]>> \o RemoveFrom(s, old, i + 1)

RemoveAll(s, old) == RemoveFrom(s, old, 1)

\* the parser of _navigation_step, lines 645-661: one line of the response
ParseLine(decision, line) ==
    IF LitAt(line, 1, <<"A","C","T","I","O","N",":">>)
    THEN LET action_text == Strip(RemoveAll(line, <<"A","C","T","I","O","N",":">>))
         IN [decision EXCEPT !.action =
               IF IsSubstr(<<"N","A","V","I","G","A","T","E">>, action_text) THEN "NAVIGATE"
               ELSE IF IsSubstr(<<"F","O","L","L","O","W","_","R","E","F","E","R","E","N","C","E">>, action_text) THEN "FOLLOW_REFERENCE"
               ELSE "DONE"]
    ELSE IF LitAt(line, 1, <<"T","A","R","G","E","T",":">>)
    THEN [decision EXCEPT !.target = Strip(RemoveAll(line, <<"T","A","R","G","E","T",":">>))]
    ELSE decision

RECURSIVE ParseLines(_, _, _)
ParseLines(decision, lines, i) ==
    IF i > Len(lines) THEN decision
    ELSE ParseLines(ParseLine(decision, lines[i]), lines, i + 1)

\* the decision _navigation_step returns for the response text
ParseDecision(text) ==
    ParseLines([action |-> "DONE", target |-> <<>>], SplitLines(text), 1)

\* _get_node_by_title(title): the rows fetchrow may return (LIMIT 1 with no
\* ORDER BY returns any one matching row); the fuzzy query runs only when
\* the exact one finds nothing
GetNodeByTitle(node_rows, title) ==
    LET rows == {node_rows[i] : i \in 1..Len(node_rows)}
        exact == {r \in rows : \E wanted \in {Lower(title)} : Lower(r.title) = wanted}
        fuzzy == {r \in rows : \E pattern \in {Lower(<<"%">> \o title \o <<"%">>)} :
                                  Like(Lower(r.title), pattern)}
    IN IF exact # {} THEN exact ELSE fuzzy

\* str.split()[0]: the first run of non-blank characters
FirstWord(s) ==
    LET t == Strip(s)
        blanks == {i \in 1..Len(t) : t[i] \in Whitespace}
    IN IF blanks = {} THEN t ELSE SubSeq(t, 1, SetMin(blanks) - 1)

\* _get_node_by_reference(reference) of the service: UPPER(title) LIKE
\* %REF% OR node_type = $2
GetNodeByReference(node_rows, reference) ==
    LET rows == {node_rows[i] : i \in 1..Len(node_rows)}
        TypeText(ref_upper) ==
            IF InSeq(ref_upper, " ")
            THEN CHOOSE t \in {Lower(word) : word \in {FirstWord(ref_upper)}} : TRUE
            ELSE <<"a","p","p","e","n","d","i","x">>
    IN {r \in rows : \E ref_upper \in {Upper(reference)} :
                       \E type_text \in {TypeText(ref_upper)} :
                          \/ Like(Upper(r.title), <<"%">> \o ref_upper \o <<"%">>)
                          \/ <<r.node_type, type_text>> \in NodeTypeValues}

\* _get_node_by_reference(conn, reference) of the MCP server: the title only
McpGetNodeByReference(node_rows, reference) ==
    LET rows == {node_rows[i] : i \in 1..Len(node_rows)}
    IN {r \in rows : \E ref_upper \in {Upper(reference)} :
                       Like(Upper(r.title), <<"%">> \o ref_upper \o <<"%">>)}

\* the entry of content_found for a node: content[:2000]
ContentEntry(node) ==
    [title |-> node.title, type |-> node.node_type,
     content |-> Take(node.content, 2000), page |-> node.page_start]

\* a faulty variant of a turn of the loop: a lookup that found no row is
\* written to the navigation log all the same
VisitLoggingMisses(variant, action, found, navigation_log, content_found) ==
    IF found = {}
    THEN [navigation_log |-> Append(navigation_log, [text |-> "Navegou para: ", arg |-> <<>>]),
          content_found |-> content_found]
    ELSE LET node == CHOOSE r \in found : TRUE
         IN [navigation_log |-> Append(navigation_log,
                                       [text |-> "Navegou para: ", arg |-> node.title]),
             content_found |-> Append(content_found, ContentEntry(node))]

\* one turn of the loop of navigate, lines 560-586, once the row (or no
\* row) has come back: found is the set holding the row, or {}
Visit(variant, action, found, navigation_log, content_found) ==
    IF found = {} THEN [navigation_log |-> navigation_log, content_found |-> content_found]
    ELSE LET node == CHOOSE r \in found : TRUE
             line == IF action = "NAVIGATE"
                     THEN [text |-> "Navegou para: ", arg |-> node.title]
                     ELSE IF variant = "service"
                     THEN [text |-> "Seguiu referência para: ", arg |-> node.title]
                     ELSE [text |-> "Seguiu referência: ", arg |-> node.title]
             refs == IF variant = "service" /\ action = "NAVIGATE" /\ node.references # <<>>
                     THEN << [text |-> "Referências encontradas: ", arg |-> node.references] >>
                     ELSE <<>>
         IN [navigation_log |-> Append(navigation_log, line) \o refs,
             content_found |-> Append(content_found, ContentEntry(node))]

\* the result dict of navigate, lines 588-593
NavigationResult(query, navigation_log, content_found) ==
    [error |-> "", query |-> query, navigation_path |-> navigation_log,
     content |-> content_found, steps |-> Len(navigation_log)]

\* int(text) for a run of digits: the value of the first n of them
RECURSIVE ParseIntTo(_, _)
ParseIntTo(d, n) ==
    IF n = 0 THEN 0 ELSE 10 * ParseIntTo(d, n - 1) + (PosIn(DigitSeq, d[n]) - 1)

ParseInt(d) == ParseIntTo(d, Len(d))

\* $1::vector, the pgvector literal "[a,b,...]" read back as a vector
ParseVector(lit) ==
    LET items == SplitOn(SubSeq(lit, 2, Len(lit) - 1), ",")
    IN [i \in 1..Len(items) |-> ParseInt(items[i])]

RECURSIVE DotTo(_, _, _)
DotTo(a, b, n) == IF n = 0 THEN 0 ELSE a[n] * b[n] + DotTo(a, b, n - 1)

\* the inner product of two vectors of one length
Dot(a, b) == DotTo(a, b, Len(a))

RECURSIVE Gcd(_, _)
Gcd(a, b) == IF b = 0 THEN a ELSE Gcd(b, a % b)

\* 1 - (embedding <=> q), the cosine of the two vectors.  The components are
\* positive, so the cosine is given by its square, kept as a reduced
\* fraction num/den.
Similarity(embedding, q) ==
    LET num == Dot(embedding, q) * Dot(embedding, q)
        den == Dot(embedding, embedding) * Dot(q, q)
        g == Gcd(num, den)
    IN [num |-> num \div g, den |-> den \div g]

\* a is at least as similar as b
AtLeast(a, b) == a.num * b.den >= b.num * a.den

\* SELECT ... FROM knowledge_chunks ORDER BY embedding <=> $1 LIMIT $2: the
\* row lists the statement may return (rows at equal distance come in any
\* order)
TopK(chunk_rows, query_embedding, top_k) ==
    LET n == Len(chunk_rows)
        m == IF top_k < n THEN top_k ELSE n
        Ranked(sim) ==
            {[i \in 1..m |-> [content |-> chunk_rows[o[i]].content,
                              file |-> chunk_rows[o[i]].file_name,
                              chunk |-> chunk_rows[o[i]].chunk_index,
                              similarity |-> sim[o[i]]]] :
               o \in {o \in [1..m -> 1..n] :
                        /\ \A i, j \in 1..m :
                             i < j => o[i] # o[j] /\ AtLeast(sim[o[i]], sim[o[j]])
                        /\ \A c \in 1..n : (\A i \in 1..m : o[i] # c) =>
                                             \A i \in 1..m : AtLeast(sim[o[i]], sim[c])}}
    IN UNION { Ranked(sim) :
                 sim \in { [c \in 1..n |-> Similarity(ParseVector(chunk_rows[c].embedding), q)] :
                             q \in {ParseVector(query_embedding)} } }

\* bool(value) for a list or a dict that came back from the cache
Truthy(value) == value # <<>>

\* a faulty variant of KnowledgeCache.get: it never finds the entry
KnowledgeCacheGetMiss(up, entries, m, cache_type, query, params) ==
    [found |-> FALSE, value |-> <<>>, metrics |-> m]

\* KnowledgeCache.get(cache_type, query, **params): found says a value came
\* back (not None).  Any failure of Redis is swallowed and gives None.
KnowledgeCacheGet(up, entries, m, cache_type, query, params) ==
    LET key == GenerateKey(cache_type, query, params)
    IN IF ~up THEN [found |-> FALSE, value |-> <<>>, metrics |-> m]
       ELSE IF key \in DOMAIN entries
       THEN [found |-> TRUE, value |-> JsonLoads(entries[key].text),
             metrics |-> RecordMetric(m, cache_type, "hits")]
       ELSE [found |-> FALSE, value |-> <<>>,
             metrics |-> RecordMetric(m, cache_type, "misses")]

\* KnowledgeCache.set(cache_type, query, value, **params): the entries after
\* redis.setex; stamp names the call that wrote the entry
KnowledgeCacheSet(up, entries, cache_type, query, value, params, stamp) ==
    IF ~up THEN entries
    ELSE MapPut(entries, GenerateKey(cache_type, query, params),
                [text |-> JsonDumps(value), stamp |-> stamp])

\* a faulty variant of the loop bound: one turn too many
LoopContinuesInclusive(step, max_steps) == step <= max_steps

\* for step in range(max_steps): whether the loop has another turn
LoopContinues(step, max_steps) == step < max_steps

\* a faulty variant of _get_embedding_cached: the failure of Redis is not
\* caught and leaves the method
GetEmbeddingCachedUnguarded(text, up, emb_cache, m, oracle) ==
    IF ~up
    THEN [ok |-> FALSE, embedding |-> <<>>, emb_cache |-> emb_cache, metrics |-> m, calls |-> 0]
    ELSE IF EmbeddingKey(text) \in DOMAIN emb_cache
    THEN [ok |-> TRUE, embedding |-> emb_cache[EmbeddingKey(text)], emb_cache |-> emb_cache,
          metrics |-> RecordMetric(m, "embedding", "hits"), calls |-> 0]
    ELSE [ok |-> oracle = "ok",
          embedding |-> IF oracle = "ok" THEN FormatEmbedding(EmbeddingOracle(text)) ELSE <<>>,
          emb_cache |-> IF oracle = "ok"
                        THEN MapPut(emb_cache, EmbeddingKey(text),
                                    FormatEmbedding(EmbeddingOracle(text)))
                        ELSE emb_cache,
          metrics |-> RecordMetric(m, "embedding", "misses"), calls |-> 1]

\* _get_embedding_cached(text): EmbeddingCache.get, on a miss _get_embedding
\* and EmbeddingCache.set.  oracle is "ok" or "down"; with the oracle down
\* the exception leaves the method.
GetEmbeddingCached(text, up, emb_cache, m, oracle) ==
    LET key == EmbeddingKey(text)
        hit == up /\ key \in DOMAIN emb_cache
        embedding == FormatEmbedding(EmbeddingOracle(text))
        m2 == IF up THEN RecordMetric(m, "embedding", IF hit THEN "hits" ELSE "misses") ELSE m
    IN IF hit
       THEN [ok |-> TRUE, embedding |-> emb_cache[key], emb_cache |-> emb_cache,
             metrics |-> m2, calls |-> 0]
       ELSE IF oracle = "ok"
       THEN [ok |-> TRUE, embedding |-> embedding,
             emb_cache |-> IF up THEN MapPut(emb_cache, key, embedding) ELSE emb_cache,
             metrics |-> m2, calls |-> 1]
       ELSE [ok |-> FALSE, embedding |-> <<>>, emb_cache |-> emb_cache,
             metrics |-> m2, calls |-> 1]

\* ------------------------------------------------------------------------
\* Calls of search() and navigate()
\* ------------------------------------------------------------------------

Queriers == {"q1", "q2"}


\* how many calls a client that is alone makes, one after the other
MaxCalls == 2

\* the largest max_steps a client passes
MaxSteps == 2

\* the top_k values a client passes
TopKs == {1, 2}

Q_dose == <<"d","o","s","e">>
Q_anexo == <<"A","n","e","x","o"," ","G">>

\* what the Decision Oracle may answer: NAVIGATE to a title that exists (its
\* node carries references), NAVIGATE to a title no node has,
\* FOLLOW_REFERENCE to "Anexo G", DONE
OracleResponses ==
    { <<"A","C","T","I","O","N",":"," ","N","A","V","I","G","A","T","E","\n","T","A","R","G","E","T",":"," ","C","A","P","Í","T","U","L","O"," ","1","\n","R","E","A","S","O","N",":"," ","x">>,
      <<"A","C","T","I","O","N",":"," ","N","A","V","I","G","A","T","E","\n","T","A","R","G","E","T",":"," ","I","n","e","x","i","s","t","e","n","t","e">>,
      <<"A","C","T","I","O","N",":"," ","F","O","L","L","O","W","_","R","E","F","E","R","E","N","C","E","\n","T","A","R","G","E","T",":"," ","A","n","e","x","o"," ","G">>,
      <<"A","C","T","I","O","N",":"," ","D","O","N","E">> }

\* the decision _navigation_step returns for each answer, computed once
Decisions == [text \in OracleResponses |-> ParseDecision(text)]

\* the locals of one call, before its first statement
QLocals ==
    [navigation_log |-> <<>>, content_found |-> <<>>, step |-> 0,
     decision |-> [action |-> "DONE", target |-> <<>>],
     query_embedding |-> <<>>, rows |-> <<>>,
     oracle_calls |-> 0, embed_calls |-> 0, live_at_get |-> <<>>, from_cache |-> FALSE,
     responses |-> <<>>]

\* the record of a finished call
Call(op, query, param, outcome, error, result, loc) ==
    [op |-> op, query |-> query, param |-> param,
     outcome |-> outcome, error |-> error, result |-> result,
     oracle_calls |-> loc.oracle_calls, embed_calls |-> loc.embed_calls,
     live_at_get |-> loc.live_at_get, from_cache |-> loc.from_cache,
     responses |-> loc.responses]

\* a client that will make budget calls, before the first; calls counts the
\* calls it has made, last is the one that ended last
Client(budget) ==
    [pc |-> "idle", op |-> "", query |-> <<>>, param |-> 0, loc |-> QLocals,
     budget |-> budget, calls |-> 0, last |-> Call("", <<>>, 0, "", "", <<>>, QLocals)]

\* the client of the runs with one client
Solo == "q1"

\* one client that makes MaxCalls calls one after the other
OneClient == [p \in Queriers |-> IF p = Solo THEN Client(MaxCalls) ELSE Client(0)]

\* one client that makes one call
OneCall == [p \in Queriers |-> IF p = Solo THEN Client(1) ELSE Client(0)]

\* two clients that make one call each, side by side
TwoClients == [p \in Queriers |-> Client(1)]

Variant(me) == IF me.op = "mcp_navigate" THEN "mcp" ELSE "service"

\* the call ends: it returns result, or error is raised to the caller
Finish(me, outcome, error, result) ==
    [me EXCEPT !.pc = "idle", !.loc = QLocals, !.calls = @ + 1,
               !.last = Call(me.op, me.query, me.param, outcome, error, result, me.loc)]

\* an exception inside navigate: the service lets it reach the caller, the
\* MCP server returns {"error": str(e)}
Fail(me, error) ==
    IF Variant(me) = "service" THEN Finish(me, "raised", error, <<>>)
    ELSE Finish(me, "returned", "", [error |-> error])

\* the entry of the knowledge cache under the key of a call, if one is live
LiveAt(cache_type, query, params) ==
    LET key == GenerateKey(cache_type, query, params)
    IN IF cacheUp /\ key \in DOMAIN cache THEN cache[key].stamp ELSE <<>>

Stamp(p) == <<p, qry[p].calls + 1>>

\* search(query, top_k), lines 158-161: the result cache
SearchCacheGet(p) ==
    /\ qry[p].pc = "k_get"
    /\ LET params == <<"top_k", qry[p].param>>
           got == KnowledgeCacheGet(cacheUp, cache, metrics, "vector_search",
                                    qry[p].query, params)
           me == [qry[p] EXCEPT !.loc.live_at_get =
                                   LiveAt("vector_search", qry[p].query, params),
                                !.loc.from_cache = got.found]
       IN /\ metrics' = got.metrics
          /\ qry' = [qry EXCEPT ![p] =
               IF got.found THEN Finish(me, "returned", "", got.value)
               ELSE [me EXCEPT !.pc = "k_embed"]]
    /\ UNCHANGED <<store, cache, embCache, cacheUp, quota, ing, faults>>

\* line 164: _get_embedding_cached(query)
SearchEmbed(p) ==
    /\ qry[p].pc = "k_embed"
    /\ \E fail \in MayFail :
        LET got == GetEmbeddingCached(qry[p].query, cacheUp, embCache, metrics,
                                      IF fail THEN "down" ELSE "ok")
            me == [qry[p] EXCEPT !.loc.embed_calls = @ + got.calls,
                                 !.loc.query_embedding = got.embedding]
        IN /\ fail => got.calls > 0
           /\ faults' = IF fail THEN faults + 1 ELSE faults
           /\ embCache' = got.emb_cache
           /\ metrics' = got.metrics
           /\ qry' = [qry EXCEPT ![p] =
                IF got.ok THEN [me EXCEPT !.pc = "k_fetch"]
                ELSE Finish(me, "raised", "oracle", <<>>)]
    /\ UNCHANGED <<store, cache, cacheUp, quota, ing>>

\* lines 166-188: the top-k statement and the result list
SearchFetch(p) ==
    /\ qry[p].pc = "k_fetch"
    /\ \E fail \in MayFail :
        IF fail
        THEN /\ faults' = faults + 1
             /\ qry' = [qry EXCEPT ![p] = Finish(qry[p], "raised", "store", <<>>)]
        ELSE /\ faults' = faults
             /\ \E result \in TopK(chunks, qry[p].loc.query_embedding, qry[p].param) :
                  qry' = [qry EXCEPT ![p].loc.rows = result, ![p].pc = "k_set"]
    /\ UNCHANGED <<store, cache, embCache, metrics, cacheUp, quota, ing>>

\* a faulty variant of the last step of search: the result is kept in the
\* table of chunks as well
SearchCacheSetStoring(p) ==
    /\ qry[p].pc = "k_set"
    /\ cache' = KnowledgeCacheSet(cacheUp, cache, "vector_search", qry[p].query,
                                  qry[p].loc.rows, <<"top_k", qry[p].param>>, Stamp(p))
    /\ chunks' = chunks \o [i \in 1..Len(qry[p].loc.rows) |->
                              [content |-> qry[p].loc.rows[i].content, embedding |-> <<>>,
                               file_name |-> qry[p].loc.rows[i].file, file_hash |-> "",
                               chunk_index |-> qry[p].loc.rows[i].chunk]]
    /\ qry' = [qry EXCEPT ![p] = Finish(qry[p], "returned", "", qry[p].loc.rows)]
    /\ UNCHANGED <<documents, nodes, tocs, embCache, metrics, cacheUp, quota, ing, faults>>

\* lines 191-193: KnowledgeCache.set and return result
SearchCacheSet(p) ==
    /\ qry[p].pc = "k_set"
    /\ cache' = KnowledgeCacheSet(cacheUp, cache, "vector_search", qry[p].query,
                                  qry[p].loc.rows, <<"top_k", qry[p].param>>, Stamp(p))
    /\ qry' = [qry EXCEPT ![p] = Finish(qry[p], "returned", "", qry[p].loc.rows)]
    /\ UNCHANGED <<store, embCache, metrics, cacheUp, quota, ing, faults>>

\* the cache after one search for Q_dose with top_k = 1 against the empty
\* store (which returns and caches the empty list)
SearchedCache ==
    KnowledgeCacheSet(TRUE, <<>>, "vector_search", Q_dose, <<>>, <<"top_k", 1>>, <<"q0", 1>>)

\* two ingest_all_pdfs calls of one service over the same folder and an empty
\* store; the cache is empty or holds the result of an earlier search
IngestInit ==
    /\ documents = <<>> /\ nodes = <<>> /\ tocs = <<>> /\ chunks = <<>>
    /\ cacheUp \in BOOLEAN
    /\ cache \in (IF cacheUp THEN {<<>>, SearchedCache} ELSE {<<>>})
    /\ embCache = <<>>
    /\ metrics = NoMetrics
    /\ \E folder \in Folders, kind \in Kinds, structures \in {Structures} :
         ing = [p \in Ingesters |-> IngStart(kind, folder, structures)]
    /\ qry = <<>>
    /\ faults = 0
    /\ quota = NoQuota

IngestSpec == IngestInit /\ [][IngestNext]_vars

\* a faulty variant of the key parameters: max_steps is left out of the key
NavParamsWithoutSteps(me) == <<>>

\* the keyword arguments of KnowledgeCache.get and .set in navigate
NavParams(me) == <<"max_steps", me.param>>

\* the loop of navigate is over (break, or range(max_steps) exhausted): the
\* service goes on to KnowledgeCache.set, the MCP server returns the result
AfterLoop(me) ==
    IF Variant(me) = "service" THEN [me EXCEPT !.pc = "n_set"]
    ELSE Finish(me, "returned", "",
                NavigationResult(me.query, me.loc.navigation_log, me.loc.content_found))

\* the head of the loop: for step in range(max_steps)
LoopHead(me) ==
    IF LoopContinues(me.loc.step, me.param) THEN [me EXCEPT !.pc = "n_decide"]
    ELSE AfterLoop(me)

\* navigate(query, max_steps), lines 518-523: the result cache
NavCacheGet(p) ==
    /\ qry[p].pc = "n_get"
    /\ LET got == KnowledgeCacheGet(cacheUp, cache, metrics, "structural_navigation",
                                    qry[p].query, NavParams(qry[p]))
           served == got.found /\ Truthy(got.value)
           me == [qry[p] EXCEPT !.loc.live_at_get =
                                   LiveAt("structural_navigation", qry[p].query,
                                          NavParams(qry[p])),
                                !.loc.from_cache = served]
       IN /\ metrics' = got.metrics
          /\ qry' = [qry EXCEPT ![p] =
               IF served THEN Finish(me, "returned", "", got.value)
               ELSE [me EXCEPT !.pc = "n_tocs"]]
    /\ UNCHANGED <<store, cache, embCache, cacheUp, quota, ing, faults>>

\* lines 528-545 (MCP: 217-233): the tables of contents of all documents.
\* The overview built from them only goes into the prompt of the Decision
\* Oracle.
NavFetchTocs(p) ==
    /\ qry[p].pc = "n_tocs"
    /\ \E fail \in MayFail :
        /\ faults' = IF fail THEN faults + 1 ELSE faults
        /\ qry' = [qry EXCEPT ![p] =
             IF fail THEN Fail(qry[p], "store")
             ELSE IF documents = <<>>
             THEN Finish(qry[p], "returned", "", [error |-> "Nenhum documento indexado"])
             ELSE LoopHead(qry[p])]
    /\ UNCHANGED <<store, cache, embCache, metrics, cacheUp, quota, ing>>

\* lines 550-557 and _navigation_step: one request to the Decision Oracle
\* and the parse of its answer
NavDecide(p) ==
    /\ qry[p].pc = "n_decide"
    /\ \E fail \in MayFail :
        LET called == [qry[p] EXCEPT !.loc.oracle_calls = @ + 1]
        IN IF fail
           THEN /\ faults' = faults + 1
                /\ qry' = [qry EXCEPT ![p] = Fail(called, "oracle")]
           ELSE /\ faults' = faults
                /\ \E text \in OracleResponses :
                    LET decision == Decisions[text]
                        me == [called EXCEPT !.loc.decision = decision,
                                             !.loc.responses = Append(@, text)]
                    IN qry' = [qry EXCEPT ![p] =
                         IF decision.action = "DONE" THEN AfterLoop(me)
                         ELSE IF decision.action = "NAVIGATE" THEN [me EXCEPT !.pc = "n_title"]
                         ELSE [me EXCEPT !.pc = "n_ref"]]
    /\ UNCHANGED <<store, cache, embCache, metrics, cacheUp, quota, ing>>

\* the rest of a turn of the loop once the lookup has answered with the
\* rows in found ({} or one row)
Visited(me, found) ==
    LET v == Visit(Variant(me), me.loc.decision.action, found,
                   me.loc.navigation_log, me.loc.content_found)
    IN LoopHead([me EXCEPT !.loc.navigation_log = v.navigation_log,
                           !.loc.content_found = v.content_found,
                           !.loc.step = @ + 1])

OneOf(rows) == IF rows = {} THEN {{}} ELSE {{r} : r \in rows}

\* lines 560-574: _get_node_by_title(decision['target'])
NavByTitle(p) ==
    /\ qry[p].pc = "n_title"
    /\ \E fail \in MayFail :
        IF fail
        THEN /\ faults' = faults + 1
             /\ qry' = [qry EXCEPT ![p] = Fail(qry[p], "store")]
        ELSE /\ faults' = faults
             /\ \E found \in OneOf(GetNodeByTitle(nodes, qry[p].loc.decision.target)) :
                  qry' = [qry EXCEPT ![p] = Visited(qry[p], found)]
    /\ UNCHANGED <<store, cache, embCache, metrics, cacheUp, quota, ing>>

\* lines 576-586: _get_node_by_reference(decision['target'])
NavByReference(p) ==
    /\ qry[p].pc = "n_ref"
    /\ \E fail \in MayFail :
        IF fail
        THEN /\ faults' = faults + 1
             /\ qry' = [qry EXCEPT ![p] = Fail(qry[p], "store")]
        ELSE /\ faults' = faults
             /\ \E found \in OneOf(IF Variant(qry[p]) = "service"
                                   THEN GetNodeByReference(nodes, qry[p].loc.decision.target)
                                   ELSE McpGetNodeByReference(nodes, qry[p].loc.decision.target)) :
                  qry' = [qry EXCEPT ![p] = Visited(qry[p], found)]
    /\ UNCHANGED <<store, cache, embCache, metrics, cacheUp, quota, ing>>

\* lines 588-600: the result, KnowledgeCache.set and return
NavCacheSet(p) ==
    /\ qry[p].pc = "n_set"
    /\ LET result == NavigationResult(qry[p].query, qry[p].loc.navigation_log,
                                      qry[p].loc.content_found)
       IN /\ cache' = KnowledgeCacheSet(cacheUp, cache, "structural_navigation",
                                        qry[p].query, result, NavParams(qry[p]), Stamp(p))
          /\ qry' = [qry EXCEPT ![p] = Finish(qry[p], "returned", "", result)]
    /\ UNCHANGED <<store, embCache, metrics, cacheUp, quota, ing, faults>>

\* a TTL runs out: Redis drops the entry
Expire ==
    /\ \E key \in DOMAIN cache : cache' = [k \in DOMAIN cache \ {key} |-> cache[k]]
    /\ UNCHANGED <<store, embCache, metrics, cacheUp, quota, ing, qry, faults>>

ExpireEmbedding ==
    /\ \E key \in DOMAIN embCache : embCache' = [k \in DOMAIN embCache \ {key} |-> embCache[k]]
    /\ UNCHANGED <<store, cache, metrics, cacheUp, quota, ing, qry, faults>>

\* a client calls navigate (service or MCP server)
NavStart(p) ==
    /\ qry[p].pc = "idle"
    /\ qry[p].calls < qry[p].budget
    /\ \E op \in {"navigate", "mcp_navigate"}, max_steps \in 1..MaxSteps :
         qry' = [qry EXCEPT ![p].op = op, ![p].query = Q_anexo, ![p].param = max_steps,
                            ![p].pc = IF op = "navigate" THEN "n_get" ELSE "n_tocs"]
    /\ UNCHANGED <<store, cache, embCache, metrics, cacheUp, quota, ing, faults>>

NavStep(p) ==
    \/ NavCacheGet(p)
    \/ NavFetchTocs(p)
    \/ NavDecide(p)
    \/ NavByTitle(p)
    \/ NavByReference(p)
    \/ NavCacheSet(p)

NavNext ==
    \/ \E p \in Queriers : NavStart(p) \/ NavStep(p)
    \/ Expire

\* the store after the structural ingestion of files, one after the other,
\* into an empty store.  (CHOOSE x \in {F(v) : v \in {e}} : TRUE is F(e) with
\* e evaluated once.)
RECURSIVE InsertNodes(_, _, _, _, _)
InsertNodes(node_rows, document_id, extracted, i, node_id_map) ==
    IF i > Len(extracted) THEN node_rows
    ELSE CHOOSE result \in
           { InsertNodes(rows, document_id, extracted, i + 1, map) :
               rows \in { Append(node_rows,
                                 NodeRow(Len(node_rows) + 1, document_id,
                                         ParentDbId(extracted[i], node_id_map),
                                         extracted[i])) },
               map \in { MapPut(node_id_map, extracted[i].order_index,
                                Len(node_rows) + 1) } } : TRUE

RECURSIVE Ingested(_, _, _)
Ingested(st, files, i) ==
    IF i > Len(files) THEN st
    ELSE CHOOSE result \in
           { Ingested([documents |-> Append(st.documents,
                          [document_id |-> Len(st.documents) + 1,
                           file_name |-> files[i].file_name,
                           file_hash |-> FileHash(files[i]),
                           total_pages |-> Len(Contents[files[i].bytes].pages)]),
                       nodes |-> node_rows,
                       tocs |-> UpsertToc(st.tocs,
                                          TocRow(Len(st.documents) + 1, node_rows))],
                      files, i + 1) :
               node_rows \in { InsertNodes(st.nodes, Len(st.documents) + 1,
                                           Structures[files[i].bytes], 1, <<>>) } } : TRUE

NavFolder == << File("a.pdf", "guide") >>
NavStore == Ingested([documents |-> <<>>, nodes |-> <<>>, tocs |-> <<>>], NavFolder, 1)

\* clients of navigate over the store left by the ingestion of NavFolder
NavInit(clients) ==
    /\ documents = NavStore.documents /\ nodes = NavStore.nodes /\ tocs = NavStore.tocs
    /\ chunks = <<>>
    /\ cache = <<>> /\ embCache = <<>>
    /\ metrics = NoMetrics
    /\ cacheUp \in BOOLEAN
    /\ ing = [p \in Ingesters |-> IngIdle]
    /\ qry = clients
    /\ faults = 0
    /\ quota = NoQuota

NavSpec == NavInit(TwoClients) /\ [][NavNext]_vars

\* one client; the event loop runs every call that has a step to take
NavFairSpec ==
    NavInit(OneCall) /\ [][NavNext]_vars /\ \A p \in Queriers : WF_vars(NavStep(p))

\* the chunks after the vector ingestion of files, one after the other,
\* into an empty table
RECURSIVE IngestedChunks(_, _, _)
IngestedChunks(chunk_rows, files, i) ==
    IF i > Len(files) THEN chunk_rows
    ELSE CHOOSE result \in
           { IngestedChunks(
               chunk_rows \o [j \in 1..Len(chunk_texts) |->
                                [content |-> chunk_texts[j],
                                 embedding |-> FormatEmbedding(EmbeddingOracle(chunk_texts[j])),
                                 file_name |-> files[i].file_name,
                                 file_hash |-> FileHash(files[i]),
                                 chunk_index |-> j - 1]],
               files, i + 1) :
               chunk_texts \in { CreateChunks(ExtractTextFromPdf(files[i])) } } : TRUE

\* the chunks the vector ingestion of NavFolder leaves
NavChunks == IngestedChunks(<<>>, NavFolder, 1)

NewFolder == << File("m.pdf", "manual") >>

\* a client calls search, or navigate with one step
CacheStart(p) ==
    /\ qry[p].pc = "idle"
    /\ qry[p].calls < qry[p].budget
    /\ \/ \E top_k \in TopKs :
            qry' = [qry EXCEPT ![p].op = "search", ![p].query = Q_dose, ![p].param = top_k,
                               ![p].pc = "k_get"]
       \/ qry' = [qry EXCEPT ![p].op = "navigate", ![p].query = Q_anexo, ![p].param = 1,
                             ![p].pc = "n_get"]
    /\ UNCHANGED <<store, cache, embCache, metrics, cacheUp, quota, ing, faults>>

SearchStep(p) ==
    \/ SearchCacheGet(p)
    \/ SearchEmbed(p)
    \/ SearchFetch(p)
    \/ SearchCacheSet(p)

CacheNext ==
    \/ \E p \in Queriers : CacheStart(p) \/ SearchStep(p) \/ NavStep(p)
    \/ IngestNext
    \/ Expire
    \/ ExpireEmbedding

\* one client of search and navigate over the store left by the ingestion of
\* NavFolder, while one ingest_all_pdfs call brings in NewFolder
CacheInit ==
    /\ documents = NavStore.documents /\ nodes = NavStore.nodes /\ tocs = NavStore.tocs
    /\ chunks = NavChunks
    /\ cache = <<>> /\ embCache = <<>>
    /\ metrics = NoMetrics
    /\ cacheUp \in BOOLEAN
    /\ \E kind \in Kinds, structures \in {Structures} :
         ing = [p \in Ingesters |->
                  IF p = "i1" THEN IngStart(kind, NewFolder, structures) ELSE IngIdle]
    /\ qry = OneClient
    /\ faults = 0
    /\ quota = NoQuota

CacheSpec == CacheInit /\ [][CacheNext]_vars

\* ------------------------------------------------------------------------
\* Mode selector (mcp_knowledge_client.py, mcp/server.py)
\* ------------------------------------------------------------------------

\* MCPKnowledgeClient.STRUCTURAL_KEYWORDS
STRUCTURAL_KEYWORDS ==
    << <<"t","a","b","e","l","a">>, <<"a","n","e","x","o">>,
       <<"a","p","ê","n","d","i","c","e">>, <<"q","u","a","d","r","o">>,
       <<"f","i","g","u","r","a">>, <<"p","r","o","t","o","c","o","l","o">>,
       <<"p","r","o","c","e","d","i","m","e","n","t","o">>, <<"p","a","s","s","o"," ","a"," ","p","a","s","s","o">>,
       <<"d","o","s","e">>, <<"d","o","s","a","g","e","m">>,
       <<"c","á","l","c","u","l","o">>, <<"f","ó","r","m","u","l","a">>,
       <<"v","a","l","o","r">>, <<"r","e","f","e","r","ê","n","c","i","a">>,
       <<"l","i","m","i","t","e">>, <<"i","n","t","e","r","v","a","l","o">>,
       <<"s","e","ç","ã","o">>, <<"c","a","p","í","t","u","l","o">>,
       <<"p","á","g","i","n","a">> >>

\* structural_keywords of KnowledgeBase.detect_best_mode
structural_keywords ==
    << <<"t","a","b","e","l","a">>, <<"a","n","e","x","o">>,
       <<"a","p","ê","n","d","i","c","e">>, <<"q","u","a","d","r","o">>,
       <<"f","i","g","u","r","a">>, <<"p","r","o","t","o","c","o","l","o">>,
       <<"p","r","o","c","e","d","i","m","e","n","t","o">>, <<"p","a","s","s","o"," ","a"," ","p","a","s","s","o">>,
       <<"d","o","s","e">>, <<"d","o","s","a","g","e","m">>,
       <<"c","á","l","c","u","l","o">>, <<"f","ó","r","m","u","l","a">>,
       <<"v","a","l","o","r">>, <<"r","e","f","e","r","ê","n","c","i","a">>,
       <<"l","i","m","i","t","e">>, <<"i","n","t","e","r","v","a","l","o">>,
       <<"s","e","ç","ã","o">>, <<"c","a","p","í","t","u","l","o">>,
       <<"p","á","g","i","n","a">> >>

\* len(query.split()): the runs of characters that are not whitespace
WordCount(query) ==
    Cardinality({i \in 1..Len(query) :
                   query[i] \notin Whitespace /\ (i = 1 \/ query[i - 1] \in Whitespace)})

\* any(kw in query_lower for kw in keywords)
AnyKeyword(keywords, query_lower) ==
    \E k \in 1..Len(keywords) : IsSubstr(keywords[k], query_lower)

\* MCPKnowledgeClient.detect_best_mode(query)
ClientDetectBestMode(query) ==
    IF AnyKeyword(STRUCTURAL_KEYWORDS, Lower(query)) THEN "structural"
    ELSE IF WordCount(query) > 10 THEN "structural"
    ELSE "vector"

\* a faulty variant of the server's selector: ten words already count as a
\* long query
ServerDetectBestModeTenWords(query) ==
    IF AnyKeyword(structural_keywords, Lower(query)) THEN "structural"
    ELSE IF WordCount(query) >= 10 THEN "structural"
    ELSE "vector"

\* KnowledgeBase.detect_best_mode(query) of the MCP server
ServerDetectBestMode(query) ==
    IF AnyKeyword(structural_keywords, Lower(query)) THEN "structural"
    ELSE IF WordCount(query) > 10 THEN "structural"
    ELSE "vector"

\* the queries given to the mode selector
ModeQueries ==
    { <<"o"," ","q","u","e"," ","é"," ","c","i","n","o","m","o","s","e">>,
      <<"t","a","b","e","l","a"," ","d","e"," ","d","o","s","a","g","e","m"," ","p","a","r","a"," ","c","ã","e","s">>,
      <<"Q","u","a","l"," ","a"," ","D","O","S","E">>,
      <<"F","Ó","R","M","U","L","A">>,
      <<"p","a","s","s","o"," "," ","a"," ","p","a","s","s","o">>,
      <<"p","a","s","s","o"," ","a"," ","p","a","s","s","o">>,
      <<"a"," ","b"," ","c"," ","d"," ","e"," ","f"," ","g"," ","h"," ","i"," ","j">>,
      <<"a"," ","b"," ","c"," ","d"," ","e"," ","f"," ","g"," ","h"," ","i"," ","j"," ","k">>,
      <<"a"," "," ","b","\t","c","\n","d"," ","e"," ","f"," ","g"," ","h"," ","i"," ","j"," ","k"," ">>,
      <<" ","a"," ","b"," ","c"," ","d"," ","e"," ","f"," ","g"," ","h"," ","i"," ","j"," ">>,
      <<>> }

\* ------------------------------------------------------------------------
\* Message formatter (message_formatter.py)
\* ------------------------------------------------------------------------

MAX_MESSAGE_LENGTH == 4096

\* text.rfind(sub, 0, max_pos): the highest 0-based index at which sub lies
\* within text[0:max_pos], -1 when there is none
RFind(text, sub, max_pos) ==
    LET top == (IF max_pos < Len(text) THEN max_pos ELSE Len(text)) - Len(sub)
    IN IF \A i \in 0..top : ~LitAt(text, i + 1, sub) THEN -1
       ELSE CHOOSE i \in 0..top :
                LitAt(text, i + 1, sub) /\ \A k \in (i + 1)..top : ~LitAt(text, k + 1, sub)

\* _find_break_point(text, max_pos).  x > max_pos * 0.5 is 2x > max_pos and
\* x > max_pos * 0.3 is 10x > 3 max_pos.
FindBreakPoint(text, max_pos) ==
    LET Sentence(punct) == RFind(text, <<punct, " ">>, max_pos)
        Far(x) == 10 * x > 3 * max_pos
    IN IF max_pos >= Len(text) THEN Len(text)
       ELSE IF 2 * RFind(text, <<"\n","\n">>, max_pos) > max_pos
       THEN RFind(text, <<"\n","\n">>, max_pos) + 2
       ELSE IF 2 * RFind(text, <<"\n">>, max_pos) > max_pos
       THEN RFind(text, <<"\n">>, max_pos) + 1
       ELSE IF Far(Sentence(".")) THEN Sentence(".") + 2
       ELSE IF Far(Sentence("!")) THEN Sentence("!") + 2
       ELSE IF Far(Sentence("?")) THEN Sentence("?") + 2
       ELSE IF Far(RFind(text, <<",", " ">>, max_pos)) THEN RFind(text, <<",", " ">>, max_pos) + 2
       ELSE IF RFind(text, <<" ">>, max_pos) > 0 THEN RFind(text, <<" ">>, max_pos) + 1
       ELSE max_pos

\* _estimate_parts(text, max_length)
EstimateParts(text, max_length) == (Len(text) \div max_length) + 1

\* f"\n\n_...continua ({part_num}/{estimate})_"
ContinuationMark(part_num, estimate) ==
    <<"\n","\n","_",".",".",".","c","o","n","t","i","n","u","a"," ","(">> \o IntToStr(part_num)
        \o <<"/">> \o IntToStr(estimate) \o <<")","_">>

\* the while loop of _split_message: the parts made of remaining
RECURSIVE SplitRemaining(_, _, _, _)
SplitRemaining(text, remaining, part_num, max_length) ==
    IF remaining = <<>> THEN <<>>
    ELSE IF Len(remaining) <= max_length THEN <<remaining>>
    ELSE CHOOSE parts \in
           { <<IF rest # <<>>
               THEN Strip(SubSeq(remaining, 1, break_point))
                       \o ContinuationMark(part_num, EstimateParts(text, max_length))
               ELSE Strip(SubSeq(remaining, 1, break_point))>>
               \o SplitRemaining(text, rest, part_num + 1, max_length) :
             rest \in { Strip(SubSeq(remaining, break_point + 1, Len(remaining))) :
                        break_point \in {FindBreakPoint(remaining, max_length - 20)} },
             break_point \in {FindBreakPoint(remaining, max_length - 20)} } : TRUE

\* _split_message(text, max_length)
SplitMessage(text, max_length) ==
    IF Len(text) <= max_length THEN <<text>>
    ELSE SplitRemaining(text, text, 1, max_length)

\* unit * n
Repeat(unit, n) == [i \in 1..(n * Len(unit)) |-> unit[((i - 1) % Len(unit)) + 1]]

\* the messages given to the formatter: a short one, 300 sentences, and
\* 5000 characters without a blank
Messages ==
    { <<"E","s","t","a"," ","é"," ","u","m","a"," ","m","e","n","s","a","g","e","m"," ","c","u","r","t","a",".">>,
      Repeat(<<"E","s","t","a"," ","é"," ","u","m","a"," ","f","r","a","s","e","."," ">>, 300),
      Repeat(<<"a">>, 5000) }

\* ------------------------------------------------------------------------
\* Single calls of the helpers: the parser of _navigation_step,
\* detect_best_mode, _get_embeddings_batch, _get_node_by_reference and
\* _split_message, each called once on an input of its own
\* ------------------------------------------------------------------------

\* lines a Decision Oracle response may hold
ResponseLines ==
    { <<"A","C","T","I","O","N",":"," ","N","A","V","I","G","A","T","E">>,
      <<"A","C","T","I","O","N",":"," ","F","O","L","L","O","W","_","R","E","F","E","R","E","N","C","E">>,
      <<"A","C","T","I","O","N",":"," ","D","O","N","E">>,
      <<"A","C","T","I","O","N",":"," ","N","A","V","I","G","A","T","E"," ","o","u"," ","F","O","L","L","O","W","_","R","E","F","E","R","E","N","C","E">>,
      <<"A","C","T","I","O","N",":"," ","E","S","P","E","R","A","R">>,
      <<"T","A","R","G","E","T",":"," ","A","n","e","x","o"," ","G">>,
      <<"n","ã","o"," ","s","e","i">> }

\* the response texts given to the parser: up to two of the lines
ParserInputs ==
    {<<>>} \cup ResponseLines
           \cup {a \o <<"\n">> \o b : a \in ResponseLines, b \in ResponseLines}

\* a helper called with input and param by a client that makes this one call
HelperCall(op, input, param) ==
    [p \in Queriers |->
       IF p = Solo
       THEN [Client(1) EXCEPT !.pc = "called", !.op = op, !.query = input, !.param = param]
       ELSE Client(0)]

\* detect_best_mode called with one query on the client (by q1) and on the
\* server (by q2)
DetectCalls(query) ==
    [p \in Queriers |->
       [Client(1) EXCEPT !.pc = "called", !.query = query,
                         !.op = IF p = Solo THEN "client_detect_best_mode"
                                ELSE "server_detect_best_mode"]]

\* the batches given to _get_embeddings_batch: one to three texts, two
\* different texts in all
BatchTexts == {<<"x">>, <<"y"," ","a">>}
Batches == UNION {[1..n -> BatchTexts] : n \in 1..3}

\* the embedding cache holding the vector of the first text
SeededEmbCache ==
    EmbCacheStore(<<>>, <<<<0, <<"x">>>>>>, 1)

\* search(Q_dose, top_k) called once
SearchCall(top_k) ==
    [p \in Queriers |->
       IF p = Solo
       THEN [Client(1) EXCEPT !.pc = "k_get", !.op = "search", !.query = Q_dose,
                              !.param = top_k]
       ELSE Client(0)]

\* the chunks of the manual and of its reprint, ingested in this order
ReprintFolder == << File("m.pdf", "manual"), File("r.pdf", "reprint") >>
ReprintChunks == IngestedChunks(<<>>, ReprintFolder, 1)

\* the tables after the structural ingestion of the handbook
HandbookFolder == << File("h.pdf", "handbook") >>
HandbookStore == Ingested([documents |-> <<>>, nodes |-> <<>>, tocs |-> <<>>], HandbookFolder, 1)

\* KnowledgeCache.invalidate(cache_type, query, **params): the entries left.
\* cache_type "" is None; query <<>> is None or the empty string, which
\* `if query and cache_type` does not tell apart.  With the Cache Store
\* down the exception is caught and nothing changes.
KnowledgeCacheInvalidate(up, entries, cache_type, query, params) ==
    IF ~up THEN entries
    ELSE IF query # <<>> /\ cache_type # ""
    THEN [k \in DOMAIN entries \ {GenerateKey(cache_type, query, params)} |-> entries[k]]
    ELSE IF cache_type # ""
    THEN [k \in {k \in DOMAIN entries : k.prefix # cache_type} |-> entries[k]]
    ELSE <<>>

\* a cache with results of two categories: searches for "dose" and for the
\* empty query, and a navigation
InvalidateSeed ==
    KnowledgeCacheSet(TRUE,
      KnowledgeCacheSet(TRUE,
        KnowledgeCacheSet(TRUE, <<>>, "vector_search", Q_dose, <<>>, <<"top_k", 1>>, <<"q0", 1>>),
        "vector_search", <<>>, <<>>, <<"top_k", 1>>, <<"q0", 2>>),
      "structural_navigation", Q_anexo, <<>>, <<"max_steps", 1>>, <<"q0", 3>>)

\* the calls of invalidate: no category (everything), a category alone, and
\* a category with a query (given says that the caller passed a query) and
\* the parameters of its key
InvalidateCalls ==
    { HelperCall("invalidate", a.query,
                 [cache_type |-> a.cache_type, given |-> a.given, params |-> a.params]) :
        a \in { [cache_type |-> "", given |-> FALSE, query |-> <<>>, params |-> <<>>],
                [cache_type |-> "vector_search", given |-> FALSE, query |-> <<>>, params |-> <<>>],
                [cache_type |-> "structural_navigation", given |-> FALSE, query |-> <<>>,
                 params |-> <<>>],
                [cache_type |-> "vector_search", given |-> TRUE, query |-> Q_dose,
                 params |-> <<"top_k", 1>>],
                [cache_type |-> "vector_search", given |-> TRUE, query |-> <<>>,
                 params |-> <<"top_k", 1>>],
                [cache_type |-> "structural_navigation", given |-> TRUE, query |-> Q_anexo,
                 params |-> <<"max_steps", 1>>] } }

\* the texts given to _create_chunks: no token, blanks only, one or two
\* tokens in blanks, exactly one window, and 1000 tokens with long runs of
\* blanks (the windows are 1-500, 451-950 and 901-1000)
ChunkTexts ==
    { <<>>, <<" ", "\n", " ", " ">>, <<" ", "a", " ", " ">>, <<"a", "\n", " ", "b", " ">>,
      Repeat(<<"a">>, CHUNK_SIZE),
      Repeat(<<"a">>, 440) \o Repeat(<<" ">>, 560),
      Repeat(<<"a">>, 440) \o Repeat(<<" ">>, 470) \o Repeat(<<"b">>, 90) }

\* the titles given to _get_node_by_title: the title of a node in another
\* case, part of a title, a title with the LIKE wildcard _ in it, the empty
\* title, and a title of no node
Titles == { <<"a","n","e","x","o"," ","g">>, <<"n","e","x","o">>, <<"A","n","e","x","o","_","G">>,
            <<>>, <<"I","n","e","x","i","s","t","e","n","t","e">> }

\* the references given to _get_node_by_reference
References == { <<"A","n","e","x","o"," ","G">>, <<"T","a","b","e","l","a"," ","9">> }

HelperCalls ==
    {HelperCall("parse_decision", text, 0) : text \in ParserInputs}
        \cup {DetectCalls(query) : query \in ModeQueries}
        \cup {HelperCall("get_embeddings_batch", texts, 0) : texts \in Batches}
        \cup {SearchCall(top_k) : top_k \in TopKs}
        \cup {HelperCall("get_node_by_reference", reference, 0) : reference \in References}
        \cup {HelperCall("split_message", text, MAX_MESSAGE_LENGTH) : text \in Messages}
        \cup {HelperCall("get_node_by_title", title, 0) : title \in Titles}
        \cup InvalidateCalls
        \cup {HelperCall("create_chunks", text, 0) : text \in ChunkTexts}

\* the parser of _navigation_step applied to the response text
ParseCall(p) ==
    /\ qry[p].pc = "called" /\ qry[p].op = "parse_decision"
    /\ qry' = [qry EXCEPT ![p] = Finish(qry[p], "returned", "", ParseDecision(qry[p].query))]
    /\ UNCHANGED <<store, cache, embCache, metrics, cacheUp, quota, ing, faults>>

\* detect_best_mode of the client
ClientDetectCall(p) ==
    /\ qry[p].pc = "called" /\ qry[p].op = "client_detect_best_mode"
    /\ qry' = [qry EXCEPT ![p] = Finish(qry[p], "returned", "", ClientDetectBestMode(qry[p].query))]
    /\ UNCHANGED <<store, cache, embCache, metrics, cacheUp, quota, ing, faults>>

\* detect_best_mode of the server
ServerDetectCall(p) ==
    /\ qry[p].pc = "called" /\ qry[p].op = "server_detect_best_mode"
    /\ qry' = [qry EXCEPT ![p] = Finish(qry[p], "returned", "", ServerDetectBestMode(qry[p].query))]
    /\ UNCHANGED <<store, cache, embCache, metrics, cacheUp, quota, ing, faults>>

\* _get_embeddings_batch(texts): the result holds the vectors, the texts
\* sent to the Embedding Oracle, the indices found in the cache and how the
\* oracle answered
BatchCall(p) ==
    /\ qry[p].pc = "called" /\ qry[p].op = "get_embeddings_batch"
    /\ \E oracle \in OracleAnswers :
        LET texts == qry[p].query
            got == GetEmbeddingsBatch(texts, cacheUp, embCache, metrics, oracle)
            cached == {i \in 1..Len(texts) :
                         cacheUp /\ EmbeddingKey(texts[i]) \in DOMAIN embCache}
        IN /\ faults' = IF oracle = "ok" \/ got.sent = <<>> THEN faults ELSE faults + 1
           /\ embCache' = got.emb_cache
           /\ metrics' = got.metrics
           /\ qry' = [qry EXCEPT ![p] =
                IF got.ok
                THEN Finish(qry[p], "returned", "",
                            [embeddings |-> got.embeddings, sent |-> got.sent,
                             cached |-> cached, oracle |-> oracle])
                ELSE Finish(qry[p], "raised", "oracle", <<>>)]
    /\ UNCHANGED <<store, cache, cacheUp, quota, ing>>

\* _get_node_by_reference(reference): the row the statement returns, as a
\* set of no row or one
ReferenceCall(p) ==
    /\ qry[p].pc = "called" /\ qry[p].op = "get_node_by_reference"
    /\ \E found \in OneOf(GetNodeByReference(nodes, qry[p].query)) :
         qry' = [qry EXCEPT ![p] = Finish(qry[p], "returned", "", found)]
    /\ UNCHANGED <<store, cache, embCache, metrics, cacheUp, quota, ing, faults>>

\* _get_node_by_title(title)
TitleCall(p) ==
    /\ qry[p].pc = "called" /\ qry[p].op = "get_node_by_title"
    /\ \E found \in OneOf(GetNodeByTitle(nodes, qry[p].query)) :
         qry' = [qry EXCEPT ![p] = Finish(qry[p], "returned", "", found)]
    /\ UNCHANGED <<store, cache, embCache, metrics, cacheUp, quota, ing, faults>>

\* KnowledgeCache.invalidate(cache_type, query, **params); the result keeps
\* what the caches and the counters were before
InvalidateCall(p) ==
    /\ qry[p].pc = "called" /\ qry[p].op = "invalidate"
    /\ cache' = KnowledgeCacheInvalidate(cacheUp, cache, qry[p].param.cache_type,
                                         qry[p].query, qry[p].param.params)
    /\ qry' = [qry EXCEPT ![p] =
         Finish(qry[p], "returned", "",
                [cache_before |-> cache, emb_before |-> embCache, metrics_before |-> metrics])]
    /\ UNCHANGED <<store, embCache, metrics, cacheUp, quota, ing, faults>>

\* _create_chunks(text)
ChunkCall(p) ==
    /\ qry[p].pc = "called" /\ qry[p].op = "create_chunks"
    /\ qry' = [qry EXCEPT ![p] = Finish(qry[p], "returned", "", CreateChunks(qry[p].query))]
    /\ UNCHANGED <<store, cache, embCache, metrics, cacheUp, quota, ing, faults>>

\* _split_message(text) with the default max_length
SplitCall(p) ==
    /\ qry[p].pc = "called" /\ qry[p].op = "split_message"
    /\ qry' = [qry EXCEPT ![p] =
         Finish(qry[p], "returned", "", SplitMessage(qry[p].query, qry[p].param))]
    /\ UNCHANGED <<store, cache, embCache, metrics, cacheUp, quota, ing, faults>>

HelperNext ==
    \E p \in Queriers :
        \/ ParseCall(p)
        \/ BatchCall(p)
        \/ ClientDetectCall(p)
        \/ ServerDetectCall(p)
        \/ SearchStep(p)
        \/ ReferenceCall(p)
        \/ SplitCall(p)
        \/ TitleCall(p)
        \/ InvalidateCall(p)
        \/ ChunkCall(p)

\* a search runs over the chunks of ReprintFolder, a reference is looked up
\* in the nodes of the guide or of the handbook; the other helpers read no
\* table
HelperInit ==
    /\ \E st \in {[documents |-> <<>>, nodes |-> <<>>, tocs |-> <<>>], NavStore, HandbookStore} :
         documents = st.documents /\ nodes = st.nodes /\ tocs = st.tocs
    /\ chunks \in {<<>>, ReprintChunks}
    /\ qry \in HelperCalls
    /\ cache = (IF qry[Solo].op = "invalidate" THEN InvalidateSeed ELSE <<>>)
    /\ cacheUp \in BOOLEAN
    /\ embCache \in (IF cacheUp THEN {<<>>, SeededEmbCache} ELSE {<<>>})
    /\ metrics = NoMetrics
    /\ ing = [p \in Ingesters |-> IngIdle]
    /\ (qry[Solo].op = "search") = (chunks # <<>>)
    /\ (qry[Solo].op \in {"get_node_by_reference", "get_node_by_title"}) = (nodes # <<>>)
    /\ faults = 0
    /\ quota = NoQuota

HelperSpec == HelperInit /\ [][HelperNext]_vars

\* ------------------------------------------------------------------------
\* Cache warmup (cache.py, CacheWarmer)
\* ------------------------------------------------------------------------

\* batch_size of CacheWarmer.warmup
batch_size == 5

\* the lists of queries warmup is called with: none, less than a batch, one
\* batch and part of a second
WarmupLists == {[k \in 1..n |-> <<"q">> \o IntToStr(k)] : n \in {0, 3, 7}}

\* the locals of warmup: i of the for loop, the tasks given to gather (each
\* "pending" until its search has returned or raised), total_warmed; and,
\* for every query of the list, how often search_func ran for it and how
\* that ended
WarmLocals(queries) ==
    [i |-> 0, tasks |-> <<>>, total_warmed |-> 0,
     runs |-> [k \in 1..Len(queries) |-> 0],
     outcomes |-> [k \in 1..Len(queries) |-> ""]] @@ QLocals

\* a faulty variant of the count: the results after the first exception of
\* a batch are not counted
WarmedUntilException(results) ==
    Cardinality({j \in 1..Len(results) : \A k \in 1..j : results[k] # "raised"})

\* for j, result in enumerate(results): the results that are no exceptions
Warmed(results) == Cardinality({j \in 1..Len(results) : results[j] # "raised"})

\* for i in range(0, len(queries), batch_size): the next batch is handed to
\* asyncio.gather, or the loop is over and total_warmed is returned
WarmupBatch(p) ==
    /\ qry[p].pc = "w_batch"
    /\ LET me == qry[p]
           n == Len(me.query)
           size == IF n - me.loc.i < batch_size THEN n - me.loc.i ELSE batch_size
       IN qry' = [qry EXCEPT ![p] =
            IF me.loc.i < n
            THEN [me EXCEPT !.loc.tasks = [j \in 1..size |-> "pending"], !.pc = "w_gather"]
            ELSE Finish(me, "returned", "",
                        [count |-> me.loc.total_warmed, runs |-> me.loc.runs,
                         outcomes |-> me.loc.outcomes])]
    /\ UNCHANGED <<store, cache, embCache, metrics, cacheUp, quota, ing, faults>>

\* one of the tasks of the batch, search_func(q), returns or raises
WarmupTask(p) ==
    /\ qry[p].pc = "w_gather"
    /\ \E j \in 1..Len(qry[p].loc.tasks), outcome \in {"returned", "raised"} :
        /\ qry[p].loc.tasks[j] = "pending"
        /\ qry' = [qry EXCEPT ![p].loc.tasks[j] = outcome,
                              ![p].loc.runs[qry[p].loc.i + j] = @ + 1,
                              ![p].loc.outcomes[qry[p].loc.i + j] = outcome]
    /\ UNCHANGED <<store, cache, embCache, metrics, cacheUp, quota, ing, faults>>

\* gather(*tasks, return_exceptions=True) has every result: they are counted
WarmupGather(p) ==
    /\ qry[p].pc = "w_gather"
    /\ \A j \in 1..Len(qry[p].loc.tasks) : qry[p].loc.tasks[j] # "pending"
    /\ qry' = [qry EXCEPT ![p].loc.total_warmed = @ + Warmed(qry[p].loc.tasks),
                          ![p].loc.i = @ + batch_size,
                          ![p].loc.tasks = <<>>,
                          ![p].pc = "w_batch"]
    /\ UNCHANGED <<store, cache, embCache, metrics, cacheUp, quota, ing, faults>>

WarmupNext ==
    \E p \in Queriers :
        \/ WarmupBatch(p)
        \/ WarmupTask(p)
        \/ WarmupGather(p)

\* one call of CacheWarmer.warmup(search_func, queries)
WarmupInit ==
    /\ documents = <<>> /\ nodes = <<>> /\ tocs = <<>> /\ chunks = <<>>
    /\ cache = <<>> /\ embCache = <<>>
    /\ metrics = NoMetrics
    /\ cacheUp \in BOOLEAN
    /\ ing = [p \in Ingesters |-> IngIdle]
    /\ \E queries \in WarmupLists :
         qry = [p \in Queriers |->
                  IF p = Solo
                  THEN [Client(1) EXCEPT !.pc = "w_batch", !.op = "warmup",
                                         !.query = queries, !.param = batch_size,
                                         !.loc = WarmLocals(queries)]
                  ELSE Client(0)]
    /\ faults = 0
    /\ quota = NoQuota

WarmupSpec == WarmupInit /\ [][WarmupNext]_vars

\* ------------------------------------------------------------------------
\* Batch search (knowledge_service.py, search_batch)
\* ------------------------------------------------------------------------

MAX_CONCURRENT_BATCHES == 3

\* the lists of queries search_batch is called with (different queries, so
\* that the searches of one batch share no cache key)
BatchQueryLists == {[k \in 1..n |-> <<"q">> \o IntToStr(k)] : n \in {2, 5}}

\* the locals of search_batch: one task per query ("waiting" for the
\* semaphore, "searching" inside it, then "returned" or "raised"), the
\* result of every task that returned, and the largest number of tasks seen
\* inside the semaphore
BatchLocals(queries) ==
    [tasks |-> [k \in 1..Len(queries) |-> "waiting"],
     task_results |-> [k \in 1..Len(queries) |-> <<>>],
     peak |-> 0] @@ QLocals

\* the tasks inside `async with semaphore`
InFlight(tasks) == {k \in 1..Len(tasks) : tasks[k] = "searching"}

\* a faulty variant of the semaphore: one task more is let in
SemaphoreFreeInclusive(tasks) == Cardinality(InFlight(tasks)) <= MAX_CONCURRENT_BATCHES

\* asyncio.Semaphore(MAX_CONCURRENT_BATCHES): a task may enter
SemaphoreFree(tasks) == Cardinality(InFlight(tasks)) < MAX_CONCURRENT_BATCHES

\* result_dict of search_batch: query -> results, for the tasks that returned
RECURSIVE ResultDict(_, _, _, _)
ResultDict(queries, tasks, task_results, k) ==
    IF k = 0 THEN <<>>
    ELSE IF tasks[k] = "raised" THEN ResultDict(queries, tasks, task_results, k - 1)
    ELSE MapPut(ResultDict(queries, tasks, task_results, k - 1), queries[k], task_results[k])

\* bounded_search(q): a waiting task acquires the semaphore
BatchAcquire(p) ==
    /\ qry[p].pc = "b_gather"
    /\ SemaphoreFree(qry[p].loc.tasks)
    /\ \E k \in 1..Len(qry[p].loc.tasks) :
        /\ qry[p].loc.tasks[k] = "waiting"
        /\ qry' = [qry EXCEPT ![p].loc.tasks[k] = "searching",
                              ![p].loc.peak =
                                 IF Cardinality(InFlight(qry[p].loc.tasks)) + 1 > @
                                 THEN Cardinality(InFlight(qry[p].loc.tasks)) + 1 ELSE @]
    /\ UNCHANGED <<store, cache, embCache, metrics, cacheUp, quota, ing, faults>>

\* search_single(q) inside the semaphore: self.search(query, top_k) returns
\* or raises, and the semaphore is released.  The searches of one batch have
\* different keys in both caches, so each is taken in one step: the cache
\* lookup, the embedding, the top-k statement and KnowledgeCache.set.
BatchSearch(p) ==
    /\ qry[p].pc = "b_gather"
    /\ \E k \in InFlight(qry[p].loc.tasks), fail \in MayFail :
       \E query \in {qry[p].query[k]}, params \in {<<"top_k", qry[p].param>>} :
       \E got \in {KnowledgeCacheGet(cacheUp, cache, metrics, "vector_search", query, params)} :
       \E emb \in {GetEmbeddingCached(query, cacheUp, embCache, got.metrics,
                                      IF fail THEN "down" ELSE "ok")} :
           /\ fail => ~got.found /\ emb.calls > 0
           /\ faults' = IF fail THEN faults + 1 ELSE faults
           /\ IF got.found
              THEN /\ qry' = [qry EXCEPT ![p].loc.tasks[k] = "returned",
                                         ![p].loc.task_results[k] = got.value]
                   /\ metrics' = got.metrics
                   /\ UNCHANGED <<cache, embCache>>
              ELSE IF ~emb.ok
              THEN /\ qry' = [qry EXCEPT ![p].loc.tasks[k] = "raised"]
                   /\ metrics' = emb.metrics
                   /\ embCache' = emb.emb_cache
                   /\ UNCHANGED cache
              ELSE \E embedding \in {emb.embedding} :
                   \E rows \in TopK(chunks, embedding, qry[p].param) :
                   /\ qry' = [qry EXCEPT ![p].loc.tasks[k] = "returned",
                                         ![p].loc.task_results[k] = rows]
                   /\ metrics' = emb.metrics
                   /\ embCache' = emb.emb_cache
                   /\ cache' = KnowledgeCacheSet(cacheUp, cache, "vector_search", query,
                                                 rows, params, Stamp(p))
    /\ UNCHANGED <<store, cacheUp, quota, ing>>

\* asyncio.gather(*tasks, return_exceptions=True) has every result:
\* result_dict is put together and returned
BatchGather(p) ==
    /\ qry[p].pc = "b_gather"
    /\ \A k \in 1..Len(qry[p].loc.tasks) : qry[p].loc.tasks[k] \in {"returned", "raised"}
    /\ qry' = [qry EXCEPT ![p] =
         Finish(qry[p], "returned", "",
                [result_dict |-> ResultDict(qry[p].query, qry[p].loc.tasks,
                                            qry[p].loc.task_results, Len(qry[p].query)),
                 tasks |-> qry[p].loc.tasks,
                 task_results |-> qry[p].loc.task_results,
                 peak |-> qry[p].loc.peak])]
    /\ UNCHANGED <<store, cache, embCache, metrics, cacheUp, quota, ing, faults>>

SearchBatchNext ==
    \E p \in Queriers :
        \/ BatchAcquire(p)
        \/ BatchSearch(p)
        \/ BatchGather(p)

\* one call of search_batch(queries, top_k) over the store left by the
\* ingestion of NavFolder
SearchBatchInit ==
    /\ documents = NavStore.documents /\ nodes = NavStore.nodes /\ tocs = NavStore.tocs
    /\ chunks = NavChunks
    /\ cache = <<>> /\ embCache = <<>>
    /\ metrics = NoMetrics
    /\ cacheUp \in BOOLEAN
    /\ ing = [p \in Ingesters |-> IngIdle]
    /\ \E queries \in BatchQueryLists, top_k \in TopKs :
         qry = [p \in Queriers |->
                  IF p = Solo
                  THEN [Client(1) EXCEPT !.pc = "b_gather", !.op = "search_batch",
                                         !.query = queries, !.param = top_k,
                                         !.loc = BatchLocals(queries)]
                  ELSE Client(0)]
    /\ faults = 0
    /\ quota = NoQuota

\* a search is in flight: BatchSearch can take a step
SearchPending == \E p \in Queriers : qry[p].pc = "b_gather" /\ InFlight(qry[p].loc.tasks) # {}

\* the event loop runs every task that can run, and every search that is in
\* flight returns or raises in the end (weak fairness of BatchSearch, with
\* SearchPending for ENABLED <<BatchSearch>>_vars)
SearchBatchSpec ==
    /\ SearchBatchInit /\ [][SearchBatchNext]_vars
    /\ WF_vars(\E p \in Queriers : BatchAcquire(p))
    /\ WF_vars(\E p \in Queriers : BatchGather(p))
    /\ ([]<>(~SearchPending) \/ []<><<\E p \in Queriers : BatchSearch(p)>>_vars)

\* ------------------------------------------------------------------------
\* Daily quota (quota_service.py)
\* ------------------------------------------------------------------------

\* DAILY_MESSAGE_LIMIT, self.default_daily_limit
DailyLimit == 2

\* the locals of check_and_increment_quota
QuotaLocals == [current_quota |-> 0, new_quota |-> 0] @@ QLocals

\* check_and_increment_quota returns allowed; granted counts the True
QuotaReturn(me, allowed) == Finish(me, "returned", "", allowed)

\* a message of the user arrives: _process_message calls
\* check_and_increment_quota(from_number)
QuotaStart(p) ==
    /\ qry[p].pc = "idle"
    /\ qry[p].calls < qry[p].budget
    /\ qry' = [qry EXCEPT ![p].op = "check_and_increment_quota", ![p].pc = "u_get",
                          ![p].loc = QuotaLocals]
    /\ UNCHANGED <<store, cache, embCache, metrics, cacheUp, ing, faults, quota>>

\* if current_quota >= self.default_daily_limit
OverLimit(current_quota) == current_quota >= DailyLimit

\* lines 44-51: redis_client.get(quota_key) and the test of the limit.  With
\* Redis down the exception is caught and the call returns True.
QuotaGet(p) ==
    /\ qry[p].pc = "u_get"
    /\ IF ~cacheUp
       THEN /\ qry' = [qry EXCEPT ![p] = QuotaReturn(qry[p], TRUE)]
            /\ quota' = [quota EXCEPT !.granted = @ + 1]
       ELSE IF OverLimit(quota.count)
       THEN /\ qry' = [qry EXCEPT ![p] = QuotaReturn(qry[p], FALSE)]
            /\ UNCHANGED quota
       ELSE /\ qry' = [qry EXCEPT ![p].loc.current_quota = quota.count, ![p].pc = "u_incr"]
            /\ UNCHANGED quota
    /\ UNCHANGED <<store, cache, embCache, metrics, cacheUp, ing, faults>>

\* line 54: redis_client.incr(quota_key); the call returns True here when
\* this was not the first message of the day
QuotaIncr(p) ==
    /\ qry[p].pc = "u_incr"
    /\ IF quota.count + 1 = 1
       THEN /\ qry' = [qry EXCEPT ![p].loc.new_quota = quota.count + 1, ![p].pc = "u_expire"]
            /\ quota' = [quota EXCEPT !.count = @ + 1]
       ELSE /\ qry' = [qry EXCEPT ![p] = QuotaReturn(qry[p], TRUE)]
            /\ quota' = [quota EXCEPT !.count = @ + 1, !.granted = @ + 1]
    /\ UNCHANGED <<store, cache, embCache, metrics, cacheUp, ing, faults>>

\* lines 57-61: redis_client.expire(quota_key, 86400) and return True
QuotaExpire(p) ==
    /\ qry[p].pc = "u_expire"
    /\ qry' = [qry EXCEPT ![p] = QuotaReturn(qry[p], TRUE)]
    /\ quota' = [quota EXCEPT !.ttl = TRUE, !.granted = @ + 1]
    /\ UNCHANGED <<store, cache, embCache, metrics, cacheUp, ing, faults>>

QuotaNext ==
    \E p \in Queriers :
        \/ QuotaStart(p)
        \/ QuotaGet(p)
        \/ QuotaIncr(p)
        \/ QuotaExpire(p)

\* the messages of one user on one day: two handlers at a time, each
\* taking MaxCalls + 1 messages one after the other
QuotaInit ==
    /\ documents = <<>> /\ nodes = <<>> /\ tocs = <<>> /\ chunks = <<>>
    /\ cache = <<>> /\ embCache = <<>>
    /\ metrics = NoMetrics
    /\ cacheUp \in BOOLEAN
    /\ ing = [p \in Ingesters |-> IngIdle]
    /\ qry = [p \in Queriers |-> Client(MaxCalls + 1)]
    /\ faults = 0
    /\ quota = NoQuota

QuotaSpec == QuotaInit /\ [][QuotaNext]_vars

\* ------------------------------------------------------------------------
\* Properties of ingestion (IngestSpec)
\* ------------------------------------------------------------------------

\* every result ingest_pdf has returned so far, with the call it belongs to
Results == UNION {{<<p, i>> : i \in 1..Len(ing[p].results)} : p \in Ingesters}

\* C3: ingesting a document whose content hash is already stored returns
\* status already_processed and writes no row to documents, nodes, tables
\* of contents or chunks.
C3_ReingestIsNoOp ==
    \A pi \in Results :
        LET r == ing[pi[1]].results[pi[2]]
        IN r.stored_at_check => r.status = "already_processed" /\ r.writes = 0

\* a byte-identical copy of a stored file has been ingested and reported
C3_Witness ==
    \E pi \in Results :
        LET r == ing[pi[1]].results[pi[2]]
        IN r.stored_at_check /\ r.status = "already_processed" /\ Len(documents) + Len(chunks) > 0

\* C4: when two ingestions of the same document run side by side, neither
\* raises (the UNIQUE constraint on file_hash is never hit) and no chunk of
\* a document is stored twice.
C4_OneCopyNoRaise ==
    /\ \A p \in Ingesters : ing[p].error # "unique_violation"
    /\ \A c1, c2 \in 1..Len(chunks) :
         (chunks[c1].file_hash = chunks[c2].file_hash
            /\ chunks[c1].chunk_index = chunks[c2].chunk_index) => c1 = c2

\* C5: ingest_all_pdfs never ends by raising, and when it ends it has
\* returned one entry with a status for every file of the folder.
C5_OneStatusPerDocument ==
    \A p \in Ingesters :
        /\ ing[p].pc # "raised"
        /\ ing[p].pc = "done" =>
             /\ Len(ing[p].results) = Len(ing[p].files)
             /\ \A i \in 1..Len(ing[p].results) : ing[p].results[i].status # ""

\* C6: once the ingestions have ended, every stored node without a parent
\* has level 0, every stored node with a parent has the level of its parent
\* plus one, and the parent of a node was stored before it (so no node is
\* its own ancestor).
C6_LevelsFollowParents ==
    (\A p \in Ingesters : ing[p].pc \in {"done", "raised"}) =>
        \A i \in 1..Len(nodes) :
            IF nodes[i].parent_id = NONE THEN nodes[i].level = 0
            ELSE /\ nodes[i].parent_id \in 1..(i - 1)
                 /\ nodes[i].level = nodes[nodes[i].parent_id].level + 1

\* ------------------------------------------------------------------------
\* Properties of navigation (NavSpec, NavFairSpec)
\* ------------------------------------------------------------------------

NavOps == {"navigate", "mcp_navigate"}

\* the call a client is in, or has ended last, was to navigate
Navigating(p) == qry[p].pc # "idle" /\ qry[p].op \in NavOps
Navigated(p) == qry[p].last.op \in NavOps

\* a call of navigate has asked the Decision Oracle no more than max_steps
\* times, and it has ended by returning unless the store or the oracle failed
OracleCallsBounded ==
    \A p \in Queriers :
        /\ Navigating(p) => qry[p].loc.oracle_calls <= qry[p].param
        /\ Navigated(p) =>
             /\ qry[p].last.oracle_calls <= qry[p].last.param
             /\ qry[p].last.outcome = "returned" \/ faults > 0

\* C1: navigate(query, max_steps = N) always ends, it returns when the
\* oracle answers (whatever it answers), and it has then made at most N
\* requests to the Decision Oracle.
C1_NavigateReturnsWithinBudget ==
    /\ []OracleCallsBounded
    /\ \A p \in Queriers : (qry[p].pc # "idle") ~> (qry[p].pc = "idle")

\* navigate has returned after the oracle answered NAVIGATE to a title no
\* node has on every one of the MaxSteps turns
C1_Witness ==
    \E p \in Queriers :
        /\ qry[p].last.op = "navigate"
        /\ qry[p].last.outcome = "returned"
        /\ qry[p].last.param = MaxSteps
        /\ qry[p].last.oracle_calls = MaxSteps
        /\ Len(qry[p].last.responses) = MaxSteps
        /\ \A i \in 1..MaxSteps :
             /\ Decisions[qry[p].last.responses[i]].action = "NAVIGATE"
             /\ GetNodeByTitle(nodes, Decisions[qry[p].last.responses[i]].target) = {}

\* C2: the field steps of the result of navigate(query, max_steps) is at
\* most max_steps.
C2_StepsWithinBudget ==
    \A p \in Queriers :
        (Navigated(p) /\ qry[p].last.outcome = "returned"
            /\ "steps" \in DOMAIN qry[p].last.result)
        => qry[p].last.result.steps <= qry[p].last.param

\* C10: two calls of navigate that were not served from the cache, with the
\* same query, the same max_steps and the same answers of the oracle, over
\* the same store, return the same navigation_path and the same content.
C10_SameAnswersSameResult ==
    \A p, q \in Queriers :
        (/\ qry[p].last.op = "navigate" /\ qry[q].last.op = "navigate"
         /\ qry[p].last.outcome = "returned" /\ qry[q].last.outcome = "returned"
         /\ ~qry[p].last.from_cache /\ ~qry[q].last.from_cache
         /\ qry[p].last.query = qry[q].last.query
         /\ qry[p].last.param = qry[q].last.param
         /\ qry[p].last.responses = qry[q].last.responses)
        => /\ qry[p].last.result.navigation_path = qry[q].last.result.navigation_path
           /\ qry[p].last.result.content = qry[q].last.result.content

\* ------------------------------------------------------------------------
\* Properties of the cache (CacheSpec)
\* ------------------------------------------------------------------------

\* client p is about to read the result cache in a call of search, its
\* previous call was a search with the same query and top_k that returned,
\* and the entry that call wrote (or was itself served from) is still live:
\* the TTL has not run out and no ingestion has invalidated it
SecondSearch(p) ==
    /\ qry[p].pc = "k_get"
    /\ qry[p].last.op = "search"
    /\ qry[p].last.outcome = "returned"
    /\ qry[p].last.query = qry[p].query
    /\ qry[p].last.param = qry[p].param
    /\ LiveAt("vector_search", qry[p].query, <<"top_k", qry[p].param>>)
         = (IF qry[p].last.from_cache THEN qry[p].last.live_at_get ELSE <<p, qry[p].calls>>)

\* C7: a second search with the same query and the same top_k, with the
\* entry of the first still live, returns at once what the first returned
\* and makes no request to the Embedding Oracle.
C7_SecondSearchServedFromCache ==
    [][\A p \in Queriers :
         (SecondSearch(p) /\ qry'[p] # qry[p]) =>
            /\ qry'[p].pc = "idle"
            /\ qry'[p].last.outcome = "returned"
            /\ qry'[p].last.result = qry[p].last.result
            /\ qry'[p].last.embed_calls = 0]_vars

\* the second of two equal searches has been served from the cache with the
\* rows the first one found
C7_Witness ==
    \E p \in Queriers :
        /\ qry[p].calls = 2
        /\ qry[p].last.op = "search"
        /\ qry[p].last.from_cache
        /\ qry[p].last.live_at_get = <<p, 1>>
        /\ qry[p].last.embed_calls = 0
        /\ qry[p].last.result # <<>>

\* what a step does while the Cache Store is unavailable
DirectStep(p) ==
    /\ (qry[p].pc = "k_fetch" /\ qry'[p].pc = "k_set") =>
          /\ qry[p].loc.embed_calls = 1
          /\ qry'[p].loc.rows \in TopK(chunks, FormatEmbedding(EmbeddingOracle(qry[p].query)),
                                       qry[p].param)
    /\ (qry[p].pc # "idle" /\ qry'[p].pc = "idle") =>
          /\ ~qry'[p].last.from_cache
          /\ qry'[p].last.outcome = "raised" =>
                qry'[p].last.error \in {"store", "oracle"} /\ faults' > 0
          /\ (qry'[p].last.outcome = "returned" /\ qry[p].op = "search") =>
                qry'[p].last.result = qry[p].loc.rows
          /\ (qry'[p].last.outcome = "returned" /\ qry[p].op = "navigate") =>
                /\ qry'[p].last.oracle_calls = Len(qry'[p].last.responses)
                /\ qry'[p].last.result =
                     NavigationResult(qry[p].query, qry[p].loc.navigation_log,
                                      qry[p].loc.content_found)

\* C8: with the Cache Store unavailable nothing is read from or written to
\* it, search returns the top_k rows of the store for the embedding the
\* oracle gives for the query (one request), navigate returns the result
\* built from the answers of the oracle, and a call raises only when the
\* store or an oracle fails.
C8_CacheDownComputesDirectly ==
    [][~cacheUp =>
         /\ cache' = cache /\ embCache' = embCache /\ metrics' = metrics
         /\ \A p \in Queriers : DirectStep(p)]_vars

\* with the Cache Store unavailable a search and then a navigate have
\* returned rows
C8_Witness ==
    /\ ~cacheUp
    /\ \E p \in Queriers :
         /\ qry[p].calls = 2
         /\ qry[p].last.outcome = "returned"
         /\ qry[p].last.op = "navigate"
         /\ qry[p].last.result.content # <<>>

\* C9: once the ingestion of a new document has completed, a query that was
\* cached when the ingestion began has no live entry holding rows that the
\* updated store would not give: the next call for it is computed against
\* the updated store.
C9_NoStaleEntryAfterIngest ==
    \A pi \in Results :
        LET r == ing[pi[1]].results[pi[2]]
        IN (ing[pi[1]].pc = "done" /\ r.status = "success") =>
             \A e \in r.cache_before :
                (e[1].prefix = "vector_search" /\ e[1] \in DOMAIN cache) =>
                   JsonLoads(cache[e[1]].text) \in
                      TopK(chunks, FormatEmbedding(EmbeddingOracle(e[1].normalized)),
                           e[1].params[2])

\* ------------------------------------------------------------------------
\* Properties of the helpers (HelperSpec)
\* ------------------------------------------------------------------------

\* the helper call of this name that has returned, if the client made it
Returned(p, op) == qry[p].pc = "idle" /\ qry[p].last.op = op /\ qry[p].last.outcome = "returned"

ActionNames == { <<"N","A","V","I","G","A","T","E">>,
                 <<"F","O","L","L","O","W","_","R","E","F","E","R","E","N","C","E">>,
                 <<"D","O","N","E">> }

\* the actions an ACTION line names
Named(line) == {a \in ActionNames : IsSubstr(a, line)}

\* a response with no ACTION line, with an ACTION line that names no action
\* or more than one, or with ACTION lines that name different actions
Ambiguous(text) ==
    LET action_lines == {l \in {SplitLines(text)[i] : i \in 1..Len(SplitLines(text))} :
                           LitAt(l, 1, <<"A","C","T","I","O","N",":">>)}
    IN \/ action_lines = {}
       \/ \E l \in action_lines : Cardinality(Named(l)) # 1
       \/ \E l, m \in action_lines : Named(l) # Named(m)

\* C11: every response is mapped to exactly one of NAVIGATE, FOLLOW_REFERENCE
\* and DONE, and a response that is unparseable or ambiguous is mapped to DONE
C11_AmbiguousIsDone ==
    \A p \in Queriers :
        Returned(p, "parse_decision") =>
            /\ qry[p].last.result.action \in {"NAVIGATE", "FOLLOW_REFERENCE", "DONE"}
            /\ Ambiguous(qry[p].last.query) => qry[p].last.result.action = "DONE"

\* ------------------------------------------------------------------------
\* Failures of the oracles
\* ------------------------------------------------------------------------

\* C12: a request to the Decision Oracle that fails ends the navigation as
\* DONE does: navigate returns its result, it neither raises the failure
\* nor returns it as an error.
C12_OracleFailureIsDone ==
    \A p \in Queriers :
        Navigated(p) =>
            /\ ~(qry[p].last.outcome = "raised" /\ qry[p].last.error = "oracle")
            /\ "error" \in DOMAIN qry[p].last.result => qry[p].last.result.error # "oracle"

\* C13: when the Embedding Oracle is unavailable, ingest_pdf does not report
\* success for a file of which a batch was not embedded, and search does not
\* return a result list.
C13_EmbeddingFailureIsExplicit ==
    /\ \A r \in Results :
         ing[r[1]].results[r[2]].oracle_down => ing[r[1]].results[r[2]].status # "success"
    /\ \A p \in Queriers :
         (qry[p].last.op = "search" /\ qry[p].last.error = "oracle")
            => qry[p].last.outcome = "raised"

\* ------------------------------------------------------------------------
\* Mode selector
\* ------------------------------------------------------------------------

\* the terms of the fixed keyword set
KeywordSet == {STRUCTURAL_KEYWORDS[k] : k \in 1..Len(STRUCTURAL_KEYWORDS)}

\* C14: detect_best_mode returns STRUCTURAL exactly when the lowercased query
\* contains a term of the keyword set or the query has more than 10 words,
\* VECTOR otherwise, and the client and the server return the same mode for
\* the same query.
C14_ModeIsFunctionOfQuery ==
    /\ \A p \in Queriers :
         (Returned(p, "client_detect_best_mode") \/ Returned(p, "server_detect_best_mode"))
         => LET q == qry[p].last.query
                structural == \/ \E kw \in KeywordSet : IsSubstr(kw, Lower(q))
                              \/ WordCount(q) > 10
            IN qry[p].last.result = IF structural THEN "structural" ELSE "vector"
    /\ \A p, q \in Queriers :
         (/\ Returned(p, "client_detect_best_mode")
          /\ Returned(q, "server_detect_best_mode")
          /\ qry[p].last.query = qry[q].last.query)
         => qry[p].last.result = qry[q].last.result

\* both selectors have answered VECTOR for a query of exactly ten words
C14_Witness ==
    \E p, q \in Queriers :
        /\ Returned(p, "client_detect_best_mode")
        /\ Returned(q, "server_detect_best_mode")
        /\ qry[p].last.query = qry[q].last.query
        /\ WordCount(qry[p].last.query) = 10
        /\ qry[p].last.result = "vector"

\* ------------------------------------------------------------------------
\* Batch embedding
\* ------------------------------------------------------------------------

\* C15: of a batch of N texts, H of them found in the embedding cache and D
\* of the others repeating a text of the batch, _get_embeddings_batch sends
\* at most N - H - D texts to the Embedding Oracle (one per different text
\* that is not cached), and equal texts get equal vectors.
C15_BatchSendsEachTextOnce ==
    \A p \in Queriers :
        (Returned(p, "get_embeddings_batch") /\ qry[p].last.result.oracle = "ok") =>
            LET texts == qry[p].last.query
                r == qry[p].last.result
                missing == {texts[i] : i \in (1..Len(texts)) \ r.cached}
            IN /\ Len(r.sent) <= Cardinality(missing)
               /\ \A i, j \in 1..Len(texts) :
                    texts[i] = texts[j] => r.embeddings[i] = r.embeddings[j]

\* ------------------------------------------------------------------------
\* Order of the search results
\* ------------------------------------------------------------------------

\* the place in knowledge_chunks of the row a result entry was made from
ChunkPlace(entry) ==
    CHOOSE c \in 1..Len(chunks) :
        chunks[c].file_name = entry.file /\ chunks[c].chunk_index = entry.chunk

\* C16: search(query, top_k) returns at most top_k chunks in the order of
\* non-increasing similarity, and chunks of equal similarity in the order in
\* which they were inserted.
C16_TopKInInsertionOrder ==
    \A p \in Queriers :
        (qry[p].last.op = "search" /\ qry[p].last.outcome = "returned") =>
            LET r == qry[p].last.result
            IN /\ Len(r) <= qry[p].last.param
               /\ \A i, j \in 1..Len(r) :
                    i < j => /\ AtLeast(r[i].similarity, r[j].similarity)
                             /\ r[i].similarity = r[j].similarity
                                   => ChunkPlace(r[i]) < ChunkPlace(r[j])

\* ------------------------------------------------------------------------
\* The cache of navigation results
\* ------------------------------------------------------------------------

\* client p is about to read the result cache in a call of navigate; client
\* q has returned from a call of navigate with the same normalized query and
\* the same max_steps, and the entry that call wrote (or was served from)
\* is still live
NavRepeat(p, q) ==
    /\ p # q
    /\ qry[p].pc = "n_get" /\ qry[p].op = "navigate"
    /\ qry[q].last.op = "navigate" /\ qry[q].last.outcome = "returned"
    /\ Strip(Lower(qry[q].last.query)) = Strip(Lower(qry[p].query))
    /\ qry[q].last.param = qry[p].param
    /\ LiveAt("structural_navigation", qry[p].query, <<"max_steps", qry[p].param>>)
         = (IF qry[q].last.from_cache THEN qry[q].last.live_at_get ELSE <<q, qry[q].calls>>)

\* a call of navigate that was served from the cache was served from an
\* entry written by a call with the same max_steps
SameStepsServed ==
    \A p, q \in Queriers :
        (/\ qry[p].last.op = "navigate" /\ qry[p].last.from_cache
         /\ qry[p].last.live_at_get = <<q, qry[q].calls>>)
        => qry[q].last.param = qry[p].last.param

\* C17: a repeated navigate with the same (normalized query, max_steps),
\* the entry of the first still live, returns the stored result and makes no
\* request to the Decision Oracle; a call with another max_steps is never
\* answered from that entry.
C17_NavigationCachedByQueryAndSteps ==
    [][/\ \A p, q \in Queriers :
            (NavRepeat(p, q) /\ qry'[p] # qry[p]) =>
               /\ qry'[p].pc = "idle"
               /\ qry'[p].last.outcome = "returned"
               /\ qry'[p].last.result = qry[q].last.result
               /\ qry'[p].last.oracle_calls = 0
       /\ SameStepsServed']_vars

\* a navigate has been answered from the entry another call wrote after it
\* visited a node
C17_Witness ==
    \E p, q \in Queriers :
        /\ p # q
        /\ qry[p].last.op = "navigate" /\ qry[p].last.from_cache
        /\ qry[p].last.live_at_get = <<q, 1>>
        /\ qry[p].last.oracle_calls = 0
        /\ qry[q].last.op = "navigate" /\ ~qry[q].last.from_cache
        /\ qry[p].last.result = qry[q].last.result
        /\ qry[p].last.result.steps > 0

\* ------------------------------------------------------------------------
\* Reads leave the store alone
\* ------------------------------------------------------------------------

\* C18: no step of search or of navigate changes structural_documents,
\* structural_nodes, structural_toc or knowledge_chunks, so the tables are
\* the same after the call as before it, wherever the call stops.
C18_ReadsLeaveStoreUnchanged ==
    [][(\E p \in Queriers : qry'[p] # qry[p]) => store' = store]_vars

\* a client has returned from one call and its next call has raised, with
\* rows in every table
C18_Witness ==
    \E p \in Queriers :
        /\ qry[p].calls = 2
        /\ qry[p].last.outcome = "raised"
        /\ documents # <<>> /\ nodes # <<>> /\ tocs # <<>> /\ chunks # <<>>

\* ------------------------------------------------------------------------
\* Cross-references
\* ------------------------------------------------------------------------

\* the nodes of the store: the appendices titled "Anexo G" (in any case) and
\* the other nodes whose content holds "ver Anexo G"
AnnexNodes ==
    {i \in 1..Len(nodes) : /\ nodes[i].node_type = "appendix"
                           /\ Lower(nodes[i].title) = <<"a","n","e","x","o"," ","g">>}
CitingNodes ==
    {i \in 1..Len(nodes) : IsSubstr(<<"v","e","r"," ","A","n","e","x","o"," ","G">>,
                                    nodes[i].content)} \ AnnexNodes

\* C19: in a document with an appendix titled "Anexo G" and another node
\* whose content holds "ver Anexo G", the citing node carries the reference
\* ANEXO G and _get_node_by_reference("Anexo G") returns the appendix titled
\* "Anexo G", no other node.
C19_ReferenceResolvesToAnnex ==
    \A p \in Queriers :
        (/\ Returned(p, "get_node_by_reference")
         /\ qry[p].last.query = <<"A","n","e","x","o"," ","G">>
         /\ AnnexNodes # {} /\ CitingNodes # {})
        => /\ \A i \in CitingNodes :
                InSeq(nodes[i].references, <<"A","N","E","X","O"," ","G">>)
           /\ \E i \in AnnexNodes : qry[p].last.result = {nodes[i]}

\* ------------------------------------------------------------------------
\* Long messages
\* ------------------------------------------------------------------------

\* C20: a message longer than the WhatsApp limit of 4096 characters is split
\* into more than one part, every part but the last carries the continuation
\* mark, and no part, mark included, is longer than the limit.
C20_PartsWithinLimit ==
    \A p \in Queriers :
        (Returned(p, "split_message") /\ Len(qry[p].last.query) > MAX_MESSAGE_LENGTH) =>
            LET parts == qry[p].last.result
            IN /\ Len(parts) > 1
               /\ \A i \in 1..(Len(parts) - 1) :
                    IsSubstr(<<"_",".",".",".","c","o","n","t","i","n","u","a"," ","(">>, parts[i])
               /\ \A i \in 1..Len(parts) : Len(parts[i]) <= MAX_MESSAGE_LENGTH

\* ------------------------------------------------------------------------
\* Lookups that find nothing
\* ------------------------------------------------------------------------

\* the rows the lookup of client p's current decision can come back with
LookupRows(p) ==
    IF qry[p].pc = "n_title" THEN GetNodeByTitle(nodes, qry[p].loc.decision.target)
    ELSE IF Variant(qry[p]) = "service"
    THEN GetNodeByReference(nodes, qry[p].loc.decision.target)
    ELSE McpGetNodeByReference(nodes, qry[p].loc.decision.target)

\* client p's lookup answers in this step, and answers with no row
MissTurn(p) ==
    /\ qry[p].pc \in {"n_title", "n_ref"}
    /\ qry'[p] # qry[p]
    /\ faults' = faults
    /\ LookupRows(p) = {}

InvalidationCompleted ==
    /\ \A i \in Ingesters : ing[i].pc \in {"idle", "done"}
    /\ \E pi \in Results : ing[pi[1]].results[pi[2]].status = "success"

\* client p is answered from the result cache in this step
ServedFromCache(p, op) ==
    /\ qry[p].pc \in {"k_get", "n_get"}
    /\ qry[p].op = op
    /\ qry'[p].pc = "idle"
    /\ qry'[p].last.from_cache

\* C22: once an ingestion's invalidation has completed, no search or
\* navigation is answered from the cache with a result computed from the
\* store as it was before that ingestion, whatever the interleaving of the
\* ingestion with a call in flight: a search served from the cache gets rows
\* the present table of chunks gives, a navigation gets content of present
\* nodes.
C22_NoStaleResultServed ==
    [][\A p \in Queriers :
         InvalidationCompleted =>
            /\ ServedFromCache(p, "search") =>
                 qry'[p].last.result \in
                    TopK(chunks, FormatEmbedding(EmbeddingOracle(qry[p].query)), qry[p].param)
            /\ ServedFromCache(p, "navigate") =>
                 \A k \in 1..Len(qry'[p].last.result.content) :
                    \E n \in 1..Len(nodes) :
                       qry'[p].last.result.content[k] = ContentEntry(nodes[n])]_vars

\* ------------------------------------------------------------------------
\* Results of the batch embedding
\* ------------------------------------------------------------------------

\* C23: _get_embeddings_batch returns one embedding per input text in the
\* order of the input (the i-th is the embedding of the i-th text, from the
\* cache or from the oracle), and with the cache available every embedding
\* obtained from the oracle is in the embedding cache when the result is
\* returned.
C23_BatchInOrderAndCached ==
    \A p \in Queriers :
        Returned(p, "get_embeddings_batch") =>
            LET texts == qry[p].last.query
                r == qry[p].last.result
            IN /\ Len(r.embeddings) = Len(texts)
               /\ \A i \in 1..Len(texts) :
                    r.embeddings[i] = FormatEmbedding(EmbeddingOracle(texts[i]))
               /\ cacheUp =>
                    \A j \in 1..Len(r.sent) :
                       /\ EmbeddingKey(r.sent[j]) \in DOMAIN embCache
                       /\ embCache[EmbeddingKey(r.sent[j])] =
                             FormatEmbedding(EmbeddingOracle(r.sent[j]))

\* ------------------------------------------------------------------------
\* Cache warmup
\* ------------------------------------------------------------------------

\* C24: warmup runs the search function once for every query of the list, in
\* consecutive batches of batch_size; a query whose search fails keeps no
\* other query of its batch or of a later batch from running, and the count
\* returned is the number of queries whose search did not fail.
C24_WarmupRunsEveryQuery ==
    \A p \in Queriers :
        /\ (qry[p].op = "warmup" /\ qry[p].pc = "w_gather") =>
              /\ qry[p].loc.i % batch_size = 0
              /\ qry[p].loc.i < Len(qry[p].query)
              /\ Len(qry[p].loc.tasks) = SetMin({batch_size, Len(qry[p].query) - qry[p].loc.i})
              /\ \A k \in 1..Len(qry[p].query) :
                    /\ k <= qry[p].loc.i => qry[p].loc.runs[k] = 1
                    /\ k > qry[p].loc.i + Len(qry[p].loc.tasks) => qry[p].loc.runs[k] = 0
        /\ Returned(p, "warmup") =>
              LET r == qry[p].last.result
                  n == Len(qry[p].last.query)
              IN /\ \A k \in 1..n : r.runs[k] = 1
                 /\ r.count = Cardinality({k \in 1..n : r.outcomes[k] = "returned"})

\* a warmup of seven queries has returned 5: one search of the first batch
\* and one of the second failed
C24_Witness ==
    \E p \in Queriers :
        /\ Returned(p, "warmup")
        /\ Len(qry[p].last.query) = 7
        /\ qry[p].last.result.outcomes[2] = "raised"
        /\ qry[p].last.result.outcomes[3] = "returned"
        /\ qry[p].last.result.outcomes[6] = "raised"
        /\ qry[p].last.result.count = 5

\* ------------------------------------------------------------------------
\* Batch search
\* ------------------------------------------------------------------------

\* C25: during a batch search at most MAX_CONCURRENT_BATCHES searches are in
\* flight at any moment, every query of the batch is searched in the end,
\* and the failure of one search neither cancels nor fails the searches of
\* the other queries: the batch returns with the results of all the others.
C25_BatchSearchBoundedAndComplete ==
    /\ [](\A p \in Queriers :
            (qry[p].op = "search_batch" /\ qry[p].pc = "b_gather") =>
                Cardinality(InFlight(qry[p].loc.tasks)) <= MAX_CONCURRENT_BATCHES)
    /\ <>(\A p \in {Solo} :
            /\ Returned(p, "search_batch")
            /\ qry[p].last.result.peak <= MAX_CONCURRENT_BATCHES
            /\ \A k \in 1..Len(qry[p].last.query) :
                 /\ qry[p].last.result.tasks[k] \in {"returned", "raised"}
                 /\ qry[p].last.result.tasks[k] = "returned" =>
                      /\ qry[p].last.query[k] \in DOMAIN qry[p].last.result.result_dict
                      /\ qry[p].last.result.result_dict[qry[p].last.query[k]] =
                            qry[p].last.result.task_results[k]
            /\ Cardinality({k \in 1..Len(qry[p].last.query) :
                              qry[p].last.result.tasks[k] = "raised"}) <= MaxFaults)

\* a batch of five queries has returned: three searches were in flight at
\* once, the search of the second query failed and the other four are in
\* the result
C25_Witness ==
    \E p \in Queriers :
        /\ Returned(p, "search_batch")
        /\ Len(qry[p].last.query) = 5
        /\ qry[p].last.result.peak = MAX_CONCURRENT_BATCHES
        /\ qry[p].last.result.tasks[2] = "raised"
        /\ Cardinality(DOMAIN qry[p].last.result.result_dict) = 4

\* ------------------------------------------------------------------------
\* Lookup by title
\* ------------------------------------------------------------------------

\* C26: _get_node_by_title(title) returns a node whose title equals the
\* given title but for case when there is one; otherwise a node whose title
\* contains the given title (case apart) when there is one; otherwise no
\* node; and for every title, the empty one included, it returns and does
\* not raise.
C26_TitleExactThenSubstring ==
    \A p \in Queriers :
        (qry[p].pc = "idle" /\ qry[p].last.op = "get_node_by_title") =>
            /\ qry[p].last.outcome = "returned"
            /\ LET rows == {nodes[i] : i \in 1..Len(nodes)}
                   wanted == Lower(qry[p].last.query)
                   exact == {r \in rows : Lower(r.title) = wanted}
                   containing == {r \in rows : IsSubstr(wanted, Lower(r.title))}
                   found == qry[p].last.result
               IN IF exact # {} THEN found # {} /\ found \subseteq exact
                  ELSE IF containing # {} THEN found # {} /\ found \subseteq containing
                  ELSE found = {}

\* ------------------------------------------------------------------------
\* Invalidation
\* ------------------------------------------------------------------------

\* C27: invalidating one category removes every entry of that category and
\* leaves the entries of the other categories, the embedding cache and the
\* hit/miss counters as they were; invalidating by exact key (category,
\* query, parameters) removes that one entry and no other.
C27_InvalidateFrame ==
    \A p \in Queriers :
        (Returned(p, "invalidate") /\ cacheUp /\ qry[p].last.param.cache_type # "") =>
            LET call == qry[p].last.param
                before == qry[p].last.result.cache_before
                gone == IF call.given
                        THEN {GenerateKey(call.cache_type, qry[p].last.query, call.params)}
                        ELSE {k \in DOMAIN before : k.prefix = call.cache_type}
            IN /\ DOMAIN cache = DOMAIN before \ gone
               /\ \A k \in DOMAIN cache : cache[k] = before[k]
               /\ embCache = qry[p].last.result.emb_before
               /\ metrics = qry[p].last.result.metrics_before

\* ------------------------------------------------------------------------
\* Chunking
\* ------------------------------------------------------------------------

\* the 0-based numbers of the windows of a text of T tokens: window k starts
\* at token k * (CHUNK_SIZE - CHUNK_OVERLAP)
WindowNumbers(T) == {k \in 0..T : k * (CHUNK_SIZE - CHUNK_OVERLAP) < T}

\* the positions of window k in a text of T tokens
WindowSpan(T, k) ==
    {i \in 1..T : /\ i > k * (CHUNK_SIZE - CHUNK_OVERLAP)
                  /\ i <= k * (CHUNK_SIZE - CHUNK_OVERLAP) + CHUNK_SIZE}

\* the positions of window k that are in its chunk: from the first to the
\* last token of the window that is not blank
ChunkSpan(text, k) ==
    LET solid == {i \in WindowSpan(Len(text), k) : text[i] \notin Whitespace}
    IN {i \in WindowSpan(Len(text), k) : (\E a \in solid : a <= i) /\ (\E b \in solid : i <= b)}

\* the text of the positions S, in order
TextOf(text, S) == IF S = {} THEN <<>> ELSE SubSeq(text, SetMin(S), SetMax(S))

\* the chunks are the windows W - O apart, each without the blanks at its
\* ends, the empty ones left out, in the order of the text
ChunksAreWindows(text, chunk_texts) ==
    LET emitted == {k \in WindowNumbers(Len(text)) : ChunkSpan(text, k) # {}}
    IN /\ Len(chunk_texts) = Cardinality(emitted)
       /\ \A k \in emitted :
            chunk_texts[Cardinality({j \in emitted : j <= k})] = TextOf(text, ChunkSpan(text, k))
       /\ \A j \in 1..Len(chunk_texts) :
            /\ Len(chunk_texts[j]) <= CHUNK_SIZE
            /\ \E i \in 1..Len(chunk_texts[j]) : chunk_texts[j][i] \notin Whitespace

\* C28 as stated: chunking returns for every text of T >= 0 tokens, with
\* windows of at most 500 tokens whose starts are 450 tokens apart, no chunk
\* empty or blank, and every token of the text in at least one chunk.
C28_EveryTokenInAChunk ==
    \A p \in Queriers :
        (qry[p].pc = "idle" /\ qry[p].last.op = "create_chunks") =>
            /\ qry[p].last.outcome = "returned"
            /\ ChunksAreWindows(qry[p].last.query, qry[p].last.result)
            /\ \A i \in 1..Len(qry[p].last.query) :
                 \E k \in WindowNumbers(Len(qry[p].last.query)) :
                    i \in ChunkSpan(qry[p].last.query, k)

\* C28, amended: chunking returns for every text of T >= 0 tokens, with
\* windows of at most 500 tokens whose starts are 450 tokens apart, no chunk
\* empty or blank, and every token that is not blank in at least one chunk
\* (blank tokens at the ends of a window are stripped, and a window of
\* blanks gives no chunk).
C28_EverySolidTokenInAChunk ==
    \A p \in Queriers :
        (qry[p].pc = "idle" /\ qry[p].last.op = "create_chunks") =>
            /\ qry[p].last.outcome = "returned"
            /\ ChunksAreWindows(qry[p].last.query, qry[p].last.result)
            /\ \A i \in 1..Len(qry[p].last.query) :
                 qry[p].last.query[i] \notin Whitespace =>
                    \E k \in WindowNumbers(Len(qry[p].last.query)) :
                       i \in ChunkSpan(qry[p].last.query, k)

\* a text of 1000 tokens has been cut into three chunks, the second one the
\* 40 tokens left of its window once the blanks are stripped
C28_Witness ==
    \E p \in Queriers :
        /\ Returned(p, "create_chunks")
        /\ Len(qry[p].last.query) = 1000
        /\ Len(qry[p].last.result) = 3
        /\ Len(qry[p].last.result[2]) = 40

\* ------------------------------------------------------------------------
\* Pages without text
\* ------------------------------------------------------------------------

\* the files with a page whose text extraction fails: it gives no text, or
\* it raises
FailingPageFiles == {"s.pdf", "d.pdf"}

\* C29: when text extraction fails for one page during structural
\* ingestion, the page contributes empty content and the ingestion of the
\* document still completes: the call does not end with the exception of
\* the extraction, and the result is success with the nodes of the other
\* pages stored.
C29_PageFailureKeepsIngesting ==
    \A p \in Ingesters :
        ing[p].kind = "structural" =>
            /\ (ing[p].pc = "raised" /\ ing[p].files[ing[p].idx].file_name \in FailingPageFiles)
                  => ing[p].error # "extraction"
            /\ \A i \in 1..Len(ing[p].results) :
                 (ing[p].results[i].file \in FailingPageFiles
                    /\ ing[p].results[i].status = "success") =>
                    \A title \in {<<"C","A","P","Í","T","U","L","O"," ","1">>,
                                  <<"A","N","E","X","O"," ","B">>} :
                       \E n \in 1..Len(nodes) :
                          /\ nodes[n].document_id = ing[p].results[i].document_id
                          /\ nodes[n].title = title

\* ------------------------------------------------------------------------
\* Daily quota
\* ------------------------------------------------------------------------

\* C30: with Redis available, the number of check_and_increment_quota calls
\* that return True for one user on one day never exceeds the daily limit,
\* however the concurrent calls for that user interleave.
C30_GrantedWithinDailyLimit ==
    cacheUp => quota.granted <= DailyLimit

====
